---- MODULE Spec2Model ----
(***************************************************************************)
(* Model of the merge engine of mcalhoun/skunk.                            *)
(*                                                                         *)
(*  - the two merge-key normalizers, CustomDecoder.preprocessMultipleMerge *)
(*    Keys of pkg/yamlparser (single pass) and of internal/yaml-parser     *)
(*    (two passes keyed by (indent, path)), as operators over texts;       *)
(*  - the resolution pipeline FindSubdirectories / ParseYAMLWithAnchors /  *)
(*    CustomDecoder.Decode / ParseStack / MergeYAML as a step machine,     *)
(*    with the YAML codec it calls;                                        *)
(*  - the stack filters of internal/utils (FilterStacks, MatchWildcard),   *)
(*    with the regular expressions they are matched by;                    *)
(*  - the show stack command of cmd (runShowStackCmd) with the duplicate   *)
(*    check it starts with (FindDuplicateStacks), as a step machine.       *)
(*                                                                         *)
(* A text is a sequence of one-character strings; a line is a text holding *)
(* no newline.                                                             *)
(***************************************************************************)
EXTENDS Integers, Sequences, FiniteSets, TLC

VARIABLES
    text,       \* the yamlText handed to preprocessMultipleMergeKeys
    outPkg,     \* what pkg/yamlparser's normalizer returned (or NotRun)
    outInt,     \* what internal/yaml-parser's normalizer returned (or NotRun)
    disk,       \* the file system: the catalog tree and the stack file
    call,       \* the entry point called, the package and its arguments
    pc,         \* the step of the pipeline that runs next
    subdirs,    \* ParseStack's subdirs (the reference directory list)
    yamlData,   \* ParseYAMLWithAnchors' yamlData
    processed,  \* Decode's processedYAML
    merged,     \* the decoded tree
    ret,        \* what the entry point returned
    steps,      \* the steps executed so far, in order
    stacks,     \* the stacks handed to FilterStacks
    filters,    \* the filters handed to FilterStacks
    filteredStacks,  \* what FilterStacks returned (or NotFiltered)
    labelFiltered,   \* what the label-only FilterStacks returned (or NotFiltered)
    matched,    \* the last MatchWildcard call: its arguments and its result
    flags,      \* show stack: --tfvars, --component and the configured stacksPath
    stackName,  \* show stack: the package variable stackName (--stackName)
    finder,     \* show stack: what finder.FindStacks returns for stacksPath
    showPc,     \* show stack: the statement of runShowStackCmd that runs next
    duplicates, \* show stack: runShowStackCmd's duplicates
    targetStack,  \* show stack: runShowStackCmd's targetStack (or NoStack)
    log,        \* show stack: the entries written to logger.Log, in order
    exitCode,   \* show stack: the status the process ended with (or Running)
    ops         \* show stack: the calls made on the discovered stacks, in order

normVars == <<text, outPkg, outInt>>
pipeVars == <<disk, call, pc, subdirs, yamlData, processed, merged, ret, steps>>
filterVars == <<stacks, filters, filteredStacks, labelFiltered, matched>>
showVars == <<flags, stackName, finder, showPc, duplicates, targetStack, log, exitCode, ops>>
showVarsButLog == <<flags, stackName, finder, showPc, duplicates, targetStack, exitCode, ops>>
vars == <<text, outPkg, outInt, disk, call, pc, subdirs, yamlData, processed, merged, ret, steps,
          stacks, filters, filteredStacks, labelFiltered, matched,
          flags, stackName, finder, showPc, duplicates, targetStack, log, exitCode, ops>>

(***************************************************************************)
(* Bounds.                                                                  *)
(***************************************************************************)
MaxLines == 4
MaxDocLines == 5

(***************************************************************************)
(* Go's strings package, as far as the normalizers use it.                  *)
(***************************************************************************)
NL == "\n"

\* unicode.IsSpace restricted to the characters of the model
IsSpace(c) == c \in {" ", "\t", "\n", "\r"}

\* strings.TrimLeft(s, " "): drops the leading characters that are in cutset
RECURSIVE TrimLeft(_, _)
TrimLeft(s, cutset) ==
    IF s = <<>> \/ s[1] \notin cutset THEN s ELSE TrimLeft(Tail(s), cutset)

RECURSIVE TrimRightSpace(_)
TrimRightSpace(s) ==
    IF s = <<>> \/ ~IsSpace(s[Len(s)]) THEN s
    ELSE TrimRightSpace(SubSeq(s, 1, Len(s) - 1))

RECURSIVE TrimLeftSpace(_)
TrimLeftSpace(s) ==
    IF s = <<>> \/ ~IsSpace(s[1]) THEN s ELSE TrimLeftSpace(Tail(s))

\* strings.TrimSpace(s)
TrimSpace(s) == TrimRightSpace(TrimLeftSpace(s))

\* strings.HasPrefix(s, p)
HasPrefix(s, p) == Len(s) >= Len(p) /\ SubSeq(s, 1, Len(p)) = p

\* strings.Repeat(" ", n)
Repeat(c, n) == [k \in 1..n |-> c]

\* F(e), with e evaluated once however often F uses its argument
Once(e, F(_)) == CHOOSE y \in { F(x) : x \in {e} } : TRUE

\* strings.Split(s, "\n"): always at least one element
Split(s) ==
    LET Cut(v) ==
            LET Lines(nl) ==
                    LET n == Cardinality(nl) + 1
                        Brk(k) == IF k = 0 THEN 0
                                  ELSE IF k = n THEN Len(v) + 1
                                  ELSE CHOOSE i \in nl : Cardinality({ j \in nl : j < i }) = k - 1
                    IN  [k \in 1..n |-> SubSeq(v, Brk(k - 1) + 1, Brk(k) - 1)]
            IN  Once({ i \in 1..Len(v) : v[i] = NL }, Lines)
    IN  Once(s, Cut)

\* strings.Join(elems, sep)
RECURSIVE Join(_, _)
Join(elems, sep) ==
    IF elems = <<>> THEN <<>>
    ELSE IF Len(elems) = 1 THEN elems[1]
    ELSE elems[1] \o sep \o Join(Tail(elems), sep)

\* strings.SplitN(s, ":", 2)[0]: the part before the first colon
RECURSIVE BeforeColon(_)
BeforeColon(s) ==
    IF s = <<>> \/ s[1] = ":" THEN <<>> ELSE <<s[1]>> \o BeforeColon(Tail(s))

MergeMarker == <<"<", "<", ":">>

\* the lines the inputs are made of: n spaces, a merge key, a key
Sp(n) == Repeat(" ", n)
MK(ref) == MergeMarker \o <<" ", "*", ref>>
KeyLine(name) == <<name, ":">>

\* strings.HasPrefix(strings.TrimSpace(line), "<<:")
IsMergeKey(line) == HasPrefix(TrimSpace(line), MergeMarker)

\* len(line) - len(strings.TrimLeft(line, " "))
Indent(line) == Len(line) - Len(TrimLeft(line, {" "}))

(***************************************************************************)
(* What a normalizer call hands back: the returned text, or a run-time     *)
(* panic (index or slice bounds out of range).                              *)
(***************************************************************************)
NotRun == [done |-> FALSE, panic |-> FALSE, text |-> <<>>]
Returned(t) == [done |-> TRUE, panic |-> FALSE, text |-> t]
Panicked == [done |-> TRUE, panic |-> TRUE, text |-> <<>>]

ListOpen == <<"<", "<", ":", " ", "[">>
ListSep == <<",", " ">>
ListClose == <<"]">>

(***************************************************************************)
(* pkg/yamlparser: preprocessMultipleMergeKeys, one pass.                   *)
(***************************************************************************)
\* a plausible slip: the flush without its len(mergeKeys) == 1 case
PkgFlushAsList(prevIndent, mergeKeys) ==
    Repeat(" ", prevIndent) \o ListOpen \o Join(mergeKeys, ListSep) \o ListClose

\* the line appended for the pending group (parser.go 90-97 and 107-112)
PkgFlush(prevIndent, mergeKeys) ==
    IF Len(mergeKeys) = 1
    THEN Repeat(" ", prevIndent) \o mergeKeys[1]
    ELSE Repeat(" ", prevIndent) \o ListOpen \o Join(mergeKeys, ListSep) \o ListClose

\* a plausible slip: line 78 without its i == 0 operand
PkgStartsGroupEarlyNoFirstLineCheck(i, indent, prevIndent) == indent # prevIndent

\* the operands of line 78's || that are evaluated before lines[i-1] is read
PkgStartsGroupEarly(i, indent, prevIndent) == i = 0 \/ indent # prevIndent

\* one iteration of the loop of line 71; i is Go's index (0-based)
PkgStep(st, lines, i) ==
    LET line == lines[i + 1]
        trimmedLine == TrimSpace(line)
    IN  IF st.panic THEN st
        ELSE IF HasPrefix(trimmedLine, MergeMarker)
        THEN LET indent == Indent(line)
                 early == PkgStartsGroupEarly(i, indent, st.prevIndent)
                 outOfRange == ~early /\ (i - 1) \notin 0..(Len(lines) - 1)
             IN  IF outOfRange THEN [st EXCEPT !.panic = TRUE]
                 ELSE IF early \/ ~HasPrefix(TrimSpace(lines[i]), MergeMarker)
                 THEN [st EXCEPT !.mergeKeys = <<trimmedLine>>, !.prevIndent = indent]
                 ELSE [st EXCEPT !.mergeKeys = Append(@, trimmedLine)]
        ELSE IF Len(st.mergeKeys) > 0
        THEN [st EXCEPT !.result = Append(Append(@, PkgFlush(st.prevIndent, st.mergeKeys)), line),
                        !.mergeKeys = <<>>]
        ELSE [st EXCEPT !.result = Append(@, line)]

RECURSIVE PkgLoop(_, _, _)
PkgLoop(st, lines, i) ==
    IF i >= Len(lines) THEN st ELSE PkgLoop(PkgStep(st, lines, i), lines, i + 1)

PkgInit == [result |-> <<>>, mergeKeys |-> <<>>, prevIndent |-> 0, panic |-> FALSE]

\* a plausible slip: the flush at the end of the file without its len() > 0 test
PkgTailAlwaysFlush(st) == Append(st.result, PkgFlush(st.prevIndent, st.mergeKeys))

\* the merge keys still pending at the end of the file (parser.go 106-113)
PkgTail(st) ==
    IF Len(st.mergeKeys) > 0
    THEN Append(st.result, PkgFlush(st.prevIndent, st.mergeKeys))
    ELSE st.result

PkgPreprocess(yamlText) ==
    LET Run(lines) ==
            LET End(st) == IF st.panic THEN Panicked ELSE Returned(Join(PkgTail(st), <<NL>>))
            IN  Once(PkgLoop(PkgInit, lines, 0), End)
    IN  Once(Split(yamlText), Run)

(***************************************************************************)
(* internal/yaml-parser: preprocessMultipleMergeKeys, two passes.           *)
(***************************************************************************)
PathKey(indent, currentPath) == [indent |-> indent, path |-> Join(currentPath, <<".">>)]

EmptyMap == [k \in {} |-> <<>>]
MapGet(m, k) == IF k \in DOMAIN m THEN m[k] ELSE <<>>
MapAppend(m, k, v) ==
    [x \in DOMAIN m \cup {k} |-> IF x = k THEN Append(MapGet(m, k), v) ELSE m[x]]

\* currentPath[:n]
SlicePrefix(s, n) ==
    IF n < 0 \/ n > Len(s) THEN [panic |-> TRUE, path |-> <<>>]
    ELSE [panic |-> FALSE, path |-> SubSeq(s, 1, n)]

\* path tracking of the first pass (lines 121-136)
TrackFirst(currentPath, previousIndent, indent, trimmed) ==
    IF indent < previousIndent
    THEN LET levelsToRemove == (previousIndent - indent) \div 2
         IN  IF Len(currentPath) >= levelsToRemove
             THEN SlicePrefix(currentPath, Len(currentPath) - levelsToRemove)
             ELSE [panic |-> FALSE, path |-> <<>>]
    ELSE IF indent > previousIndent /\ ~HasPrefix(trimmed, MergeMarker)
    THEN [panic |-> FALSE, path |-> Append(currentPath, BeforeColon(trimmed))]
    ELSE [panic |-> FALSE, path |-> currentPath]

\* one iteration of the first pass (lines 112-146)
IntFirstStep(st, line) ==
    IF st.panic \/ line = <<>> \/ TrimSpace(line) = <<>> THEN st
    ELSE LET indent == Indent(line)
             trimmed == TrimSpace(line)
             t == TrackFirst(st.currentPath, st.previousIndent, indent, trimmed)
         IN  IF t.panic THEN [st EXCEPT !.panic = TRUE]
             ELSE [st EXCEPT
                      !.currentPath = t.path,
                      !.previousIndent = indent,
                      !.pathToMergeKeys =
                          IF HasPrefix(trimmed, MergeMarker)
                          THEN MapAppend(@, PathKey(indent, t.path), trimmed)
                          ELSE @]

RECURSIVE IntFirstLoop(_, _, _)
IntFirstLoop(st, lines, i) ==
    IF i >= Len(lines) THEN st
    ELSE IntFirstLoop(IntFirstStep(st, lines[i + 1]), lines, i + 1)

IntFirstInit ==
    [currentPath |-> <<>>, previousIndent |-> 0, pathToMergeKeys |-> EmptyMap,
     panic |-> FALSE]

\* a plausible slip: the second pass pushes a segment for a merge-key line too
TrackSecondPushesMergeKey(currentPath, previousIndent, indent, trimmed) ==
    IF indent < previousIndent
    THEN LET levelsToRemove == (previousIndent - indent) \div 2
         IN  IF Len(currentPath) >= levelsToRemove
             THEN SlicePrefix(currentPath, Len(currentPath) - levelsToRemove)
             ELSE [panic |-> FALSE, path |-> <<>>]
    ELSE IF indent > previousIndent
    THEN [panic |-> FALSE, path |-> Append(currentPath, BeforeColon(trimmed))]
    ELSE [panic |-> FALSE, path |-> currentPath]

\* path tracking of the second pass (lines 165-177)
TrackSecond(currentPath, previousIndent, indent, trimmed) ==
    IF indent < previousIndent
    THEN LET levelsToRemove == (previousIndent - indent) \div 2
         IN  IF Len(currentPath) >= levelsToRemove
             THEN SlicePrefix(currentPath, Len(currentPath) - levelsToRemove)
             ELSE [panic |-> FALSE, path |-> <<>>]
    ELSE IF indent > previousIndent /\ ~HasPrefix(trimmed, MergeMarker)
    THEN [panic |-> FALSE, path |-> Append(currentPath, BeforeColon(trimmed))]
    ELSE [panic |-> FALSE, path |-> currentPath]

\* the line the second pass emits for a group of several merge keys (188-189)
IntMergeKeysLine(indent, mergeKeys) ==
    Repeat(" ", indent) \o ListOpen \o Join(mergeKeys, ListSep) \o ListClose

\* what the second pass does with a merge-key line (lines 181-196)
IntEmit(st, key, indent, line, pathToMergeKeys) ==
    LET mergeKeys == MapGet(pathToMergeKeys, key)
    IN  IF Len(mergeKeys) > 1 /\ key \notin st.processedKeys
        THEN [st EXCEPT !.resultLines = Append(@, IntMergeKeysLine(indent, mergeKeys)),
                        !.processedKeys = @ \cup {key}]
        ELSE IF Len(mergeKeys) = 1 \/ key \notin st.processedKeys
        THEN [st EXCEPT !.resultLines = Append(@, line),
                        !.processedKeys = @ \cup {key}]
        ELSE st

\* a plausible slip: the second pass skips a blank line as the first pass does
IntBlankLineSkipped(st, line) == st

\* what the second pass does with a blank line (lines 156-159)
IntBlankLine(st, line) == [st EXCEPT !.resultLines = Append(@, line)]

\* one iteration of the second pass (lines 155-200)
IntSecondStep(st, line, pathToMergeKeys) ==
    IF st.panic THEN st
    ELSE IF line = <<>> \/ TrimSpace(line) = <<>>
    THEN IntBlankLine(st, line)
    ELSE LET indent == Indent(line)
             trimmed == TrimSpace(line)
             t == TrackSecond(st.currentPath, st.previousIndent, indent, trimmed)
             moved == [st EXCEPT !.currentPath = t.path, !.previousIndent = indent]
         IN  IF t.panic THEN [st EXCEPT !.panic = TRUE]
             ELSE IF HasPrefix(trimmed, MergeMarker)
             THEN IntEmit(moved, PathKey(indent, t.path), indent, line, pathToMergeKeys)
             ELSE [moved EXCEPT !.resultLines = Append(@, line)]

RECURSIVE IntSecondLoop(_, _, _, _)
IntSecondLoop(st, lines, i, pathToMergeKeys) ==
    IF i >= Len(lines) THEN st
    ELSE IntSecondLoop(IntSecondStep(st, lines[i + 1], pathToMergeKeys),
                       lines, i + 1, pathToMergeKeys)

IntSecondInit ==
    [currentPath |-> <<>>, previousIndent |-> 0, processedKeys |-> {},
     resultLines |-> <<>>, panic |-> FALSE]

IntPreprocess(yamlText) ==
    LET Run(lines) ==
            LET Second(first) ==
                    LET End(second) ==
                            IF first.panic \/ second.panic THEN Panicked
                            ELSE Returned(Join(second.resultLines, <<NL>>))
                    IN  Once(IntSecondLoop(IntSecondInit, lines, 0, first.pathToMergeKeys), End)
            IN  Once(IntFirstLoop(IntFirstInit, lines, 0), Second)
    IN  Once(Split(yamlText), Run)

(***************************************************************************)
(* Vocabulary of the properties: the block structure of a text, read off   *)
(* its indentation independently of either normalizer.                      *)
(***************************************************************************)
IsBlank(line) == TrimSpace(line) = <<>>
IsComment(line) == HasPrefix(TrimSpace(line), <<"#">>)
IsOrdinary(line) == ~IsBlank(line) /\ ~IsComment(line) /\ ~IsMergeKey(line)
OpensMapping(line) ==
    IsOrdinary(line) /\ TrimSpace(line)[Len(TrimSpace(line))] = ":"

RECURSIVE MergeKeyLines(_)
MergeKeyLines(ls) ==
    IF ls = <<>> THEN <<>>
    ELSE (IF IsMergeKey(ls[1]) THEN <<ls[1]>> ELSE <<>>) \o MergeKeyLines(Tail(ls))

RECURSIVE OtherLines(_)
OtherLines(ls) ==
    IF ls = <<>> THEN <<>>
    ELSE (IF IsMergeKey(ls[1]) THEN <<>> ELSE <<ls[1]>>) \o OtherLines(Tail(ls))

\* merge-key lines i < j of one mapping: equal indentation, and nothing
\* between them that is indented less (which would close the mapping)
SameMapping(ls, i, j) ==
    /\ i < j
    /\ IsMergeKey(ls[i]) /\ IsMergeKey(ls[j])
    /\ Indent(ls[i]) = Indent(ls[j])
    /\ \A k \in (i + 1)..(j - 1) :
          (IsBlank(ls[k]) \/ IsComment(ls[k])) \/ Indent(ls[k]) >= Indent(ls[i])

OneMergeKeyPerMapping(ls) ==
    \A i, j \in 1..Len(ls) : ~SameMapping(ls, i, j)

\* ls[i..j] is a maximal run of adjacent merge-key lines of equal indentation
Adjacent(ls, k) ==
    /\ k \in 1..(Len(ls) - 1)
    /\ IsMergeKey(ls[k]) /\ IsMergeKey(ls[k + 1])
    /\ Indent(ls[k]) = Indent(ls[k + 1])

IsRun(ls, i, j) ==
    /\ 1 <= i /\ i <= j /\ j <= Len(ls)
    /\ IsMergeKey(ls[i])
    /\ \A k \in i..(j - 1) : Adjacent(ls, k)
    /\ ~Adjacent(ls, i - 1)
    /\ ~Adjacent(ls, j)

Runs(ls) == { r \in (1..Len(ls)) \X (1..Len(ls)) : IsRun(ls, r[1], r[2]) }

\* the list entry the contract prescribes for the merge-key lines ls[i..j]
CombinedLine(ls, i, j) ==
    Sp(Indent(ls[i])) \o ListOpen
        \o Join([k \in 1..(j - i + 1) |-> TrimSpace(ls[i + k - 1])], ListSep)
        \o ListClose

ExpectedLine(ls, i, j) == IF i = j THEN ls[i] ELSE CombinedLine(ls, i, j)

RECURSIVE Strip(_)
Strip(ls) ==
    IF ls = <<>> THEN <<>>
    ELSE (IF IsBlank(ls[1]) \/ IsComment(ls[1]) THEN <<>> ELSE <<ls[1]>>) \o Strip(Tail(ls))

RECURSIVE BlankAndCommentLines(_)
BlankAndCommentLines(ls) ==
    IF ls = <<>> THEN <<>>
    ELSE (IF IsBlank(ls[1]) \/ IsComment(ls[1]) THEN <<ls[1]>> ELSE <<>>)
             \o BlankAndCommentLines(Tail(ls))

\* a block-structured document: the first key is at column 0, a line is
\* indented deeper than the one before only directly under a key that opens a
\* mapping, and then by two columns, and no mapping holds the same key twice
WellFormed(ls) ==
    LET s == Strip(ls)
    IN  /\ s # <<>> => Indent(s[1]) = 0
        /\ \A k \in 2..Len(s) :
              \/ Indent(s[k]) <= Indent(s[k - 1])
              \/ OpensMapping(s[k - 1]) /\ Indent(s[k]) = Indent(s[k - 1]) + 2
        /\ \A i, j \in 1..Len(s) :
              (i < j /\ IsOrdinary(s[i]) /\ s[i] = s[j]) =>
                  \E k \in (i + 1)..(j - 1) : Indent(s[k]) < Indent(s[i])

(***************************************************************************)
(* The YAML codec the pipeline delegates to (yaml.NewDecoder with          *)
(* yaml.ReferenceDirs, yaml.Marshal). Its code is not part of the          *)
(* repository: it is modelled from the design document (3, 4.3, 6), for     *)
(* block mappings of "key: value" lines.                                    *)
(*                                                                         *)
(* A value is null, a scalar or a mapping from keys to values.              *)
(***************************************************************************)
Chars(s) == [i \in 1..Len(s) |-> SubSeq(s, i, i)]

VNull == [kind |-> "null", text |-> <<>>, map |-> <<>>]
VScalar(s) == [kind |-> "scalar", text |-> s, map |-> <<>>]
VMap(m) == [kind |-> "map", text |-> <<>>, map |-> m]

\* the keys of g overriding those of f
Override(f, g) ==
    [k \in DOMAIN f \cup DOMAIN g |-> IF k \in DOMAIN g THEN g[k] ELSE f[k]]

Bind(f, k, v) == Override(f, [x \in {k} |-> v])

RECURSIVE AfterColon(_)
AfterColon(s) ==
    IF s = <<>> THEN <<>> ELSE IF s[1] = ":" THEN Tail(s) ELSE AfterColon(Tail(s))

RECURSIVE UpToSpace(_)
UpToSpace(s) ==
    IF s = <<>> \/ s[1] = " " THEN <<>> ELSE <<s[1]>> \o UpToSpace(Tail(s))

HasColon(s) == \E k \in 1..Len(s) : s[k] = ":"

\* "key:" or "key: value"
IsEntry(line) ==
    LET t == TrimSpace(line)
    IN  /\ HasColon(t)
        /\ BeforeColon(t) # <<>>
        /\ AfterColon(t) = <<>> \/ AfterColon(t)[1] = " "

Node(kind, txt, entries, names) ==
    [kind |-> kind, text |-> txt, entries |-> entries, names |-> names]

\* the items of "[<<: *a, <<: *b]": the anchors named, or a syntax error
RECURSIVE SplitItems(_, _)
SplitItems(s, cur) ==
    IF s = <<>> THEN <<cur>>
    ELSE IF s[1] = "," THEN <<cur>> \o SplitItems(Tail(s), <<>>)
    ELSE SplitItems(Tail(s), Append(cur, s[1]))

ItemName(item) ==
    LET t == TrimSpace(item)
        v == IF HasPrefix(t, MergeMarker) THEN TrimSpace(AfterColon(t)) ELSE t
    IN  IF v # <<>> /\ v[1] = "*" THEN Tail(v) ELSE <<>>

FlowList(v) ==
    LET items == SplitItems(SubSeq(v, 2, Len(v) - 1), <<>>)
        names == [k \in 1..Len(items) |-> ItemName(items[k])]
    IN  IF v[Len(v)] = "]" /\ \A k \in 1..Len(names) : names[k] # <<>>
        THEN Node("merges", <<>>, <<>>, names)
        ELSE Node("error", <<>>, <<>>, <<>>)

MergeKeyName == <<"<", "<">>

\* the value written after "key:" on the same line
ParseValue(key, v) ==
    IF v = <<>> THEN Node("block", <<>>, <<>>, <<>>)
    ELSE IF v[1] = "*" THEN Node("alias", Tail(v), <<>>, <<>>)
    ELSE IF v[1] = "[" /\ key = MergeKeyName THEN FlowList(v)
    ELSE IF v = Chars("null") \/ v = Chars("~") THEN Node("null", <<>>, <<>>, <<>>)
    ELSE IF v = Chars("{}") THEN Node("map", <<>>, <<>>, <<>>)
    ELSE Node("scalar", v, <<>>, <<>>)

\* the entries of the block mapping at column n that starts at line i
RECURSIVE ParseBlock(_, _, _)
ParseBlock(cl, i, n) ==
    IF i > Len(cl) \/ Indent(cl[i]) < n THEN [entries |-> <<>>, next |-> i, ok |-> TRUE]
    ELSE IF Indent(cl[i]) > n \/ ~IsEntry(cl[i]) THEN [entries |-> <<>>, next |-> i, ok |-> FALSE]
    ELSE LET t == TrimSpace(cl[i])
             v0 == TrimSpace(AfterColon(t))
             anchor == IF v0 # <<>> /\ v0[1] = "&" THEN Tail(UpToSpace(v0)) ELSE <<>>
             v == IF anchor = <<>> THEN v0
                  ELSE TrimSpace(SubSeq(v0, Len(anchor) + 2, Len(v0)))
             head == ParseValue(BeforeColon(t), v)
             hasChild == i < Len(cl) /\ Indent(cl[i + 1]) > n
             child == IF hasChild THEN ParseBlock(cl, i + 1, Indent(cl[i + 1]))
                      ELSE [entries |-> <<>>, next |-> i + 1, ok |-> TRUE]
             node == IF head.kind # "block" THEN head
                     ELSE IF hasChild THEN Node("map", <<>>, child.entries, <<>>)
                     ELSE Node("null", <<>>, <<>>, <<>>)
             rest == ParseBlock(cl, child.next, n)
         IN  [entries |-> <<[key |-> BeforeColon(t), anchor |-> anchor, node |-> node]>>
                             \o rest.entries,
              next |-> rest.next,
              ok |-> /\ child.ok /\ rest.ok
                     /\ head.kind # "error"
                     /\ hasChild => head.kind = "block"]

\* the lines that hold content: neither blank nor a comment
ContentLines(t) == Strip(Split(t))

\* the document of a text: its entries, or a syntax error
ParseDocument(t) ==
    LET Doc(cl) ==
            LET Whole(b) == [entries |-> b.entries, ok |-> b.ok /\ b.next = Len(cl) + 1]
            IN  IF cl = <<>> THEN [entries |-> <<>>, ok |-> TRUE]
                ELSE Once(ParseBlock(cl, 1, Indent(cl[1])), Whole)
    IN  Once(ContentLines(t), Doc)

Resolved(v, env) == [value |-> v, env |-> env, err |-> ""]
Unresolved(env, err) == [value |-> VNull, env |-> env, err |-> err]

\* the mapping a merge list stands for: later entries win
RECURSIVE ResolveMerges(_, _, _, _)
ResolveMerges(names, k, env, acc) ==
    IF k > Len(names) THEN Resolved(VMap(acc), env)
    ELSE IF names[k] \notin DOMAIN env THEN Unresolved(env, "alias not found")
    ELSE IF env[names[k]].kind # "map" THEN Unresolved(env, "merge of a non-mapping")
    ELSE ResolveMerges(names, k + 1, env, Override(acc, env[names[k]].map))

\* the value of a node, with the anchors known so far (env) and those the node
\* declares; a mapping takes the keys of its merge entry as defaults and the
\* keys written in it override them as a whole
RECURSIVE ResolveNode(_, _), ResolveEntries(_, _, _, _)
ResolveNode(node, env) ==
    CASE node.kind = "null" -> Resolved(VNull, env)
      [] node.kind = "scalar" -> Resolved(VScalar(node.text), env)
      [] node.kind = "alias" ->
            IF node.text \in DOMAIN env THEN Resolved(env[node.text], env)
            ELSE Unresolved(env, "alias not found")
      [] node.kind = "merges" -> ResolveMerges(node.names, 1, env, EmptyMap)
      [] OTHER ->
            ResolveEntries(node.entries, 1, env,
                           [explicit |-> EmptyMap, defaults |-> EmptyMap, merged |-> FALSE])

ResolveEntries(entries, k, env, acc) ==
    IF k > Len(entries) THEN Resolved(VMap(Override(acc.defaults, acc.explicit)), env)
    ELSE LET e == entries[k]
             Entered(r) ==
                 LET env1 == IF e.anchor # <<>> THEN Bind(r.env, e.anchor, r.value) ELSE r.env
                 IN  IF r.err # "" THEN r
                     ELSE IF e.key = MergeKeyName
                     THEN IF acc.merged THEN Unresolved(env1, "duplicate key")
                          ELSE IF r.value.kind # "map"
                          THEN Unresolved(env1, "merge of a non-mapping")
                          ELSE ResolveEntries(entries, k + 1, env1,
                                   [acc EXCEPT !.defaults = r.value.map, !.merged = TRUE])
                     ELSE IF e.key \in DOMAIN acc.explicit THEN Unresolved(env1, "duplicate key")
                     ELSE ResolveEntries(entries, k + 1, env1,
                              [acc EXCEPT !.explicit = Bind(@, e.key, r.value)])
         IN  Once(ResolveNode(e.node, env), Entered)

\* decoder.Decode(&result) on a text, with the anchors of the reference documents
Decode(t, refs) ==
    LET \* a: the content lines, the document and the anchors of the references
        Decoded(a) ==
            IF a[1] = <<Chars("{}")>> THEN Resolved(VMap(EmptyMap), a[3])
            ELSE IF ~a[2].ok THEN Unresolved(a[3], "syntax error")
            ELSE ResolveNode(Node("map", <<>>, a[2].entries, <<>>), a[3])
    IN  Once(<<ContentLines(t), ParseDocument(t), refs>>, Decoded)

\* the order of bytes, for the characters of the model
Alphabet == Chars(" !#&*,-./0123456789:<=>?ABCDEFGHIJKLMNOPQRSTUVWXYZ[]_abcdefghijklmnopqrstuvwxyz{}~")
CharRank(c) == CHOOSE k \in 1..Len(Alphabet) : Alphabet[k] = c

RECURSIVE KeyLess(_, _)
KeyLess(a, b) ==
    IF a = <<>> THEN b # <<>>
    ELSE IF b = <<>> THEN FALSE
    ELSE IF a[1] = b[1] THEN KeyLess(Tail(a), Tail(b))
    ELSE CharRank(a[1]) < CharRank(b[1])

RECURSIVE SortKeys(_)
SortKeys(S) ==
    IF S = {} THEN <<>>
    ELSE LET m == CHOOSE a \in S : \A b \in S \ {a} : KeyLess(a, b)
         IN  <<m>> \o SortKeys(S \ {m})

\* yaml.Marshal of a mapping: block style, keys in order, two columns a level
RECURSIVE MarshalLines(_, _), MarshalKeys(_, _, _)
MarshalLines(m, n) == MarshalKeys(m, SortKeys(DOMAIN m), n)

MarshalKeys(m, keys, n) ==
    IF keys = <<>> THEN <<>>
    ELSE LET k == keys[1]
             v == m[k]
             here == CASE v.kind = "null" -> <<Sp(n) \o k \o Chars(": null")>>
                       [] v.kind = "scalar" -> <<Sp(n) \o k \o Chars(": ") \o v.text>>
                       [] v.kind = "map" /\ DOMAIN v.map = {} -> <<Sp(n) \o k \o Chars(": {}")>>
                       [] OTHER -> <<Sp(n) \o k \o Chars(":")>> \o MarshalLines(v.map, n + 2)
         IN  here \o MarshalKeys(m, Tail(keys), n)

MarshalText(v) ==
    IF v.kind # "map" \/ DOMAIN v.map = {} THEN Chars("{}\n")
    ELSE Join(MarshalLines(v.map, 0), <<NL>>) \o <<NL>>

(***************************************************************************)
(* The resolution pipeline: FindSubdirectories, ParseYAMLWithAnchors,      *)
(* CustomDecoder.Decode, ParseStack and MergeYAML (the same code in both    *)
(* packages, each with its own normalizer).                                 *)
(*                                                                         *)
(* A path is a sequence of names. An error value is the chain of its        *)
(* messages, outermost first, with the set of paths the messages print.     *)
(***************************************************************************)
CatalogDir == <<"catalog">>
StackFile == <<"stack.yaml">>

NoError == [chain |-> <<>>, paths |-> {}]
IsError(e) == e.chain # <<>>

\* fmt.Errorf(msg + ": %w", err), with the paths msg formats with %s
Errorf(msg, printed, err) ==
    [chain |-> <<msg>> \o err.chain, paths |-> printed \cup err.paths]

\* the *fs.PathError of os.Lstat, os.ReadDir and os.ReadFile: "<op> <path>: <errno>"
PathError(op, path) == [chain |-> <<op>>, paths |-> {path}]

\* the errors of the YAML codec: they print positions in the text, no path
CodecError(what) == [chain |-> <<what>>, paths |-> {}]

Nil == [kind |-> "nil", of |-> <<>>]
Tree(t) == [kind |-> "tree", of |-> t]
Bytes(b) == [kind |-> "bytes", of |-> b]

\* the names of directory entries in the order os.ReadDir returns them
EntryNames == <<"a.yaml", "deep", "sub", "zed">>

RECURSIVE EntriesFrom(_, _, _)
EntriesFrom(tree, path, k) ==
    IF k > Len(EntryNames) THEN <<>>
    ELSE (IF Append(path, EntryNames[k]) \in DOMAIN tree
          THEN <<Append(path, EntryNames[k])>> ELSE <<>>)
             \o EntriesFrom(tree, path, k + 1)

\* a plausible slip: the callback without its d.IsDir() test
VisitAnyEntry(d, path, acc) == [acc EXCEPT !.dirs = Append(@, path)]

\* the callback of FindSubdirectories on an entry that was read without error
\* (lines 21-24)
Visit(d, path, acc) ==
    IF d.tree[path] = "dir" THEN [acc EXCEPT !.dirs = Append(@, path)] ELSE acc

\* filepath.WalkDir with the callback of FindSubdirectories (lines 17-25):
\* acc is the dirs collected so far and the error that stopped the walk
RECURSIVE WalkDirRec(_, _, _), WalkEntries(_, _, _)
WalkDirRec(d, path, acc) ==
    LET acc1 == Visit(d, path, acc)
    IN  IF d.tree[path] # "dir" THEN acc1
        ELSE IF path \in d.unreadable
        THEN [acc1 EXCEPT !.err = PathError("open: permission denied", path)]
        ELSE WalkEntries(d, EntriesFrom(d.tree, path, 1), acc1)

WalkEntries(d, entries, acc) ==
    IF entries = <<>> \/ IsError(acc.err) THEN acc
    ELSE WalkEntries(d, Tail(entries), WalkDirRec(d, entries[1], acc))

WalkDir(d, root) ==
    IF root \notin DOMAIN d.tree
    THEN [dirs |-> <<>>, err |-> PathError("lstat: no such file or directory", root)]
    ELSE WalkDirRec(d, root, [dirs |-> <<>>, err |-> NoError])

\* a plausible slip: the error of the walk is dropped
FindSubdirectoriesUnchecked(d, root) == [dirs |-> WalkDir(d, root).dirs, err |-> NoError]

\* FindSubdirectories(root)
FindSubdirectories(d, root) ==
    LET w == WalkDir(d, root)
    IN  IF IsError(w.err)
        THEN [dirs |-> <<>>, err |-> Errorf("error walking directory %s", {root}, w.err)]
        ELSE [dirs |-> w.dirs, err |-> NoError]

\* os.ReadFile(yamlFile) and the wrapping of its error (lines 121-124)
ReadFile(d, yamlFile) ==
    IF d.stack.exists
    THEN [data |-> d.stack.data, err |-> NoError]
    ELSE [data |-> <<>>,
          err |-> Errorf("failed to read YAML file %s", {yamlFile},
                         PathError("open: no such file or directory", yamlFile))]

\* the error ParseStack returns when FindSubdirectories fails (lines 143-145)
ScanFailure(err) == Errorf("failed to find subdirectories", {}, err)

\* the error ParseStack returns when ParseYAMLWithAnchors fails (lines 152-154)
ParseFailure(err) == Errorf("failed to parse YAML with anchors", {}, err)

\* the error that reaches ParseStack's caller when the codec rejects the text:
\* wrapped by Decode (58), by ParseYAMLWithAnchors (133) and by ParseStack (153)
DecodeFailure(codecErr) ==
    ParseFailure(Errorf("failed to decode YAML", {},
                        Errorf("failed to decode YAML", {}, codecErr)))

\* the error MergeYAML returns when yaml.Marshal fails (lines 169-171)
MarshalFailure(codecErr) == Errorf("failed to marshal merged YAML", {}, codecErr)

\* a plausible slip: an empty tree, not nil, beside the error
FailedWithEmptyTree(err) == [status |-> "error", value |-> Tree(<<>>), err |-> err]

\* return nil, err
Failed(err) == [status |-> "error", value |-> Nil, err |-> err]
Succeeded(v) == [status |-> "ok", value |-> v, err |-> NoError]
NotReturned == [status |-> "none", value |-> Nil, err |-> NoError]

\* the catalog documents: a.yaml of the catalog root declares the anchor x,
\* a.yaml two directories down declares the anchor y
FileText(path) ==
    IF Len(path) = 2 THEN Chars("x: &x\n  k: 1\n  m: 1")
    ELSE Chars("y: &y\n  k: 2\n  n: 2")

\* the documents yaml.ReferenceDirs(anchorDirs...) makes the decoder read: the
\* files directly in each directory of the list, in order; env collects the
\* anchors they declare
RECURSIVE AnchorsOfFiles(_, _)
AnchorsOfFiles(files, env) ==
    IF files = <<>> THEN env
    ELSE AnchorsOfFiles(Tail(files), Override(env, Decode(FileText(files[1]), EmptyMap).env))

FilesIn(d, dir) == SelectSeq(EntriesFrom(d.tree, dir, 1), LAMBDA p : d.tree[p] = "file")

RECURSIVE ReferenceAnchors(_, _, _)
ReferenceAnchors(d, dirs, env) ==
    IF dirs = <<>> THEN env
    ELSE ReferenceAnchors(d, Tail(dirs), AnchorsOfFiles(FilesIn(d, dirs[1]), env))

\* cd.preprocessMultipleMergeKeys of the package called
Preprocess(pkg, t) == IF pkg = "pkg" THEN PkgPreprocess(t) ELSE IntPreprocess(t)

\* ParseStack(stackFile, catalogDir) of a package, as one function of the disk
ParseStack(d, c) ==
    LET found == FindSubdirectories(d, c.catalogDir)
        got == ReadFile(d, c.stackFile)
        out == Preprocess(c.pkg, got.data)
        r == Decode(out.text, ReferenceAnchors(d, <<c.catalogDir>> \o found.dirs, EmptyMap))
    IN  IF IsError(found.err) THEN Failed(ScanFailure(found.err))
        ELSE IF IsError(got.err) THEN Failed(ParseFailure(got.err))
        ELSE IF out.panic THEN [status |-> "panic", value |-> Nil, err |-> NoError]
        ELSE IF r.err # "" THEN Failed(DecodeFailure(CodecError(r.err)))
        ELSE Succeeded(Tree(r.value))

\* the catalog trees and stack files of the model
CatalogPaths ==
    { CatalogDir,
      CatalogDir \o <<"a.yaml">>,
      CatalogDir \o <<"sub">>,
      CatalogDir \o <<"sub", "deep">>,
      CatalogDir \o <<"sub", "deep", "a.yaml">>,
      CatalogDir \o <<"zed">> }

KindOf(path) == IF path[Len(path)] = "a.yaml" THEN "file" ELSE "dir"

PrefixClosed(P) ==
    \A q \in P : Len(q) > 1 => SubSeq(q, 1, Len(q) - 1) \in P

\* internal/yaml-parser/fixtures/combined_stack.yaml (lines 1-30), the stack
\* of TestParseStack
Fixture ==
    Join(<< Chars("# Stack component definitions"),
           Chars("terraform-vpc: &terraform-vpc"),
           Chars("  type: terraform"),
           Chars("  vars:"),
           Chars("    cidr_block: 10.0.0.0/16"),
           Chars("    enable_dns: true"),
           <<>>,
           Chars("helm-nginx: &helm-nginx"),
           Chars("  type: helm"),
           Chars("  vars:"),
           Chars("    replicas: 3"),
           Chars("    version: 1.19"),
           <<>>,
           Chars("# Stack definition"),
           Chars("apiVersion: skunk/v1"),
           Chars("kind: Stack"),
           Chars("metadata:"),
           Chars("  name: test-stack"),
           Chars("spec:"),
           Chars("  components:"),
           Chars("    terraform:"),
           Chars("      vpc:"),
           Chars("        <<: *terraform-vpc"),
           Chars("        vars:"),
           Chars("          environment: dev"),
           Chars("    helm:"),
           Chars("      nginx:"),
           Chars("        <<: *helm-nginx"),
           Chars("        vars:"),
           Chars("          replicas: 2") >>, <<NL>>)

StackTexts ==
    { Chars("a:\n  <<: *x"),
      Chars("a:\n  <<: *x\n  <<: *y"),
      Chars("a:\n  <<: *y\n  k: 0\n  c: 1"),
      Chars("a:\n  c:\n    k: 0\n    <<: *x\n  <<: *y"),
      Chars("a:\n  <<: *x\n  k: 0\nb:\n  <<: *y\n  k: 0"),
      Chars("a:\n  c:\n    <<: *z\n  <<: *x"),
      Chars("a:\n  <<: *z"),
      Chars("a:\n  <<: *x\n b: 1"),
      Fixture }

Disks ==
    { [tree |-> [q \in P |-> KindOf(q)], unreadable |-> U, stack |-> f] :
        P \in { Q \in SUBSET CatalogPaths : PrefixClosed(Q) },
        U \in { V \in SUBSET CatalogPaths : Cardinality(V) <= 1 },
        f \in {[exists |-> FALSE, data |-> <<>>]}
                 \cup { [exists |-> TRUE, data |-> t] : t \in StackTexts } }

NotFiltered == [done |-> FALSE, stacks |-> <<>>]
NotMatched == [done |-> FALSE, s |-> <<>>, pattern |-> <<>>, result |-> FALSE]

FilterIdle ==
    /\ stacks = <<>>
    /\ filters = <<>>
    /\ filteredStacks = NotFiltered
    /\ labelFiltered = NotFiltered
    /\ matched = NotMatched

Running == [exited |-> FALSE, status |-> 0]
Exited(status) == [exited |-> TRUE, status |-> status]
NoStack == [Name |-> <<>>, Labels |-> <<>>, FilePath |-> <<>>, found |-> FALSE]

ShowIdle ==
    /\ flags = [tfVars |-> FALSE, componentName |-> <<>>, stacksPath |-> <<>>]
    /\ stackName = <<>>
    /\ finder = [stacks |-> <<>>, err |-> FALSE]
    /\ showPc = "idle"
    /\ duplicates = <<>>
    /\ targetStack = NoStack
    /\ log = <<>>
    /\ exitCode = Running
    /\ ops = <<>>

PipeIdle ==
    /\ disk = [tree |-> <<>>, unreadable |-> {}, stack |-> [exists |-> FALSE, data |-> <<>>]]
    /\ call = [fn |-> "none", pkg |-> "pkg", stackFile |-> StackFile, catalogDir |-> CatalogDir]
    /\ pc = "idle"
    /\ subdirs = <<>>
    /\ yamlData = <<>>
    /\ processed = <<>>
    /\ merged = Nil
    /\ ret = NotReturned
    /\ steps = <<>>

PipeInit ==
    /\ text = <<>>
    /\ outPkg = NotRun
    /\ outInt = NotRun
    /\ disk \in { d \in Disks : \A u \in d.unreadable : u \in DOMAIN d.tree /\ d.tree[u] = "dir" }
    /\ call \in [fn : {"ParseStack", "MergeYAML"}, pkg : {"pkg", "internal"},
                 stackFile : {StackFile}, catalogDir : {CatalogDir}]
    /\ pc = "scan"
    /\ subdirs = <<>>
    /\ yamlData = <<>>
    /\ processed = <<>>
    /\ merged = Nil
    /\ ret = NotReturned
    /\ steps = <<>>
    /\ FilterIdle
    /\ ShowIdle

\* a plausible slip: ParseStack goes on to read the file whatever the scan returned
ScanCatalogIgnoringError ==
    /\ pc = "scan"
    /\ subdirs' = <<call.catalogDir>> \o FindSubdirectories(disk, call.catalogDir).dirs
    /\ pc' = "read"
    /\ steps' = Append(steps, "scan")
    /\ UNCHANGED <<normVars, filterVars, showVars, disk, call, yamlData, processed, merged, ret>>

\* ParseStack, lines 142-148
ScanCatalog ==
    /\ pc = "scan"
    /\ \E found \in {FindSubdirectories(disk, call.catalogDir)} :
           IF IsError(found.err)
           THEN /\ ret' = Failed(ScanFailure(found.err))
                /\ pc' = "done"
                /\ UNCHANGED subdirs
           ELSE /\ subdirs' = <<call.catalogDir>> \o found.dirs
                /\ pc' = "read"
                /\ UNCHANGED ret
    /\ steps' = Append(steps, "scan")
    /\ UNCHANGED <<normVars, filterVars, showVars, disk, call, yamlData, processed, merged>>

\* ParseYAMLWithAnchors, lines 121-128
ReadStackFile ==
    /\ pc = "read"
    /\ \E got \in {ReadFile(disk, call.stackFile)} :
           IF IsError(got.err)
           THEN /\ ret' = Failed(ParseFailure(got.err))
                /\ pc' = "done"
                /\ UNCHANGED yamlData
           ELSE /\ yamlData' = got.data
                /\ pc' = "normalize"
                /\ UNCHANGED ret
    /\ steps' = Append(steps, "read")
    /\ UNCHANGED <<normVars, filterVars, showVars, disk, call, subdirs, processed, merged>>

\* CustomDecoder.Decode, line 51
Normalize ==
    /\ pc = "normalize"
    /\ \E out \in {Preprocess(call.pkg, yamlData)} :
           IF out.panic
           THEN /\ ret' = [status |-> "panic", value |-> Nil, err |-> NoError]
                /\ pc' = "done"
                /\ UNCHANGED processed
           ELSE /\ processed' = out.text
                /\ pc' = "decode"
                /\ UNCHANGED ret
    /\ steps' = Append(steps, "normalize")
    /\ UNCHANGED <<normVars, filterVars, showVars, disk, call, subdirs, yamlData, merged>>

\* CustomDecoder.Decode, lines 54-61, and the returns of ParseYAMLWithAnchors
\* and ParseStack; the codec decodes the text or rejects it
DecodeYAML ==
    /\ pc = "decode"
    /\ \E r \in {Decode(processed, ReferenceAnchors(disk, subdirs, EmptyMap))} :
           IF r.err # ""
           THEN /\ ret' = Failed(DecodeFailure(CodecError(r.err)))
                /\ pc' = "done"
                /\ UNCHANGED merged
           ELSE /\ merged' = Tree(r.value)
                /\ IF call.fn = "ParseStack"
                   THEN ret' = Succeeded(Tree(r.value)) /\ pc' = "done"
                   ELSE ret' = ret /\ pc' = "marshal"
    /\ steps' = Append(steps, "decode")
    /\ UNCHANGED <<normVars, filterVars, showVars, disk, call, subdirs, yamlData, processed>>

\* a MergeYAML that returns the bytes it read instead of serializing the tree
MarshalYamlData ==
    /\ pc = "marshal"
    /\ \E outcome \in {"ok", "marshal error"} :
          ret' = IF outcome = "ok" THEN Succeeded(Bytes(yamlData))
                 ELSE Failed(MarshalFailure(CodecError(outcome)))
    /\ pc' = "done"
    /\ steps' = Append(steps, "marshal")
    /\ UNCHANGED <<normVars, filterVars, showVars, disk, call, subdirs, yamlData, processed, merged>>

\* MergeYAML, lines 168-173
Marshal ==
    /\ pc = "marshal"
    /\ \E outcome \in {"ok", "marshal error"} :
          ret' = IF outcome = "ok" THEN Succeeded(Bytes(MarshalText(merged.of)))
                 ELSE Failed(MarshalFailure(CodecError(outcome)))
    /\ pc' = "done"
    /\ steps' = Append(steps, "marshal")
    /\ UNCHANGED <<normVars, filterVars, showVars, disk, call, subdirs, yamlData, processed, merged>>

PipeNext == ScanCatalog \/ ReadStackFile \/ Normalize \/ DecodeYAML \/ Marshal

SpecPipe == PipeInit /\ [][PipeNext]_vars

(***************************************************************************)
(* The texts the normalizers are run on: every text of at most MaxLines    *)
(* lines drawn from LineSet: a blank line, a comment, keys at three depths, *)
(* merge keys at columns 2 and 4, one at the odd column 1 and one with     *)
(* trailing white space. Malformed indentation is part of the set.          *)
(***************************************************************************)
LineSet ==
    { <<>>,
      <<"#">>,
      KeyLine("a"),
      Sp(2) \o KeyLine("b"),
      Sp(4) \o KeyLine("c"),
      MK("x") \o <<" ">>,
      Sp(1) \o MK("y"),
      Sp(2) \o MK("x"),
      Sp(2) \o MK("y"),
      Sp(4) \o MK("x") }

LineSeqs == UNION { [1..n -> LineSet] : n \in 1..MaxLines }

TextSet == { Join(ls, <<NL>>) : ls \in LineSeqs }

NormInit ==
    /\ text \in TextSet
    /\ outPkg = NotRun
    /\ outInt = NotRun
    /\ PipeIdle
    /\ FilterIdle
    /\ ShowIdle

\* decoder.preprocessMultipleMergeKeys(text) of pkg/yamlparser
PreprocessPkg ==
    /\ ~outPkg.done
    /\ outPkg' = PkgPreprocess(text)
    /\ UNCHANGED <<text, outInt, pipeVars, filterVars, showVars>>

\* decoder.preprocessMultipleMergeKeys(text) of internal/yaml-parser
PreprocessInt ==
    /\ ~outInt.done
    /\ outInt' = IntPreprocess(text)
    /\ UNCHANGED <<text, outPkg, pipeVars, filterVars, showVars>>

NormNext == PreprocessPkg \/ PreprocessInt

SpecNorm == NormInit /\ [][NormNext]_vars

(***************************************************************************)
(* The same two calls on block-structured documents of up to MaxDocLines   *)
(* lines, written line by line before either normalizer is called.          *)
(***************************************************************************)
DocLineSet ==
    { <<>>,
      <<"#">>,
      KeyLine("a"),
      KeyLine("b"),
      Sp(2) \o KeyLine("b"),
      Sp(2) \o KeyLine("c"),
      Sp(4) \o KeyLine("c"),
      Sp(2) \o MK("x"),
      Sp(2) \o MK("y"),
      Sp(4) \o MK("x"),
      Sp(4) \o MK("y") }

DocInit ==
    /\ text \in { l \in DocLineSet : WellFormed(<<l>>) }
    /\ outPkg = NotRun
    /\ outInt = NotRun
    /\ PipeIdle
    /\ FilterIdle
    /\ ShowIdle

\* one more line of the stack file
WriteLine ==
    /\ ~outPkg.done /\ ~outInt.done
    /\ Len(Split(text)) < MaxDocLines
    /\ \E l \in DocLineSet :
          /\ WellFormed(Append(Split(text), l))
          /\ text' = text \o <<NL>> \o l
    /\ UNCHANGED <<outPkg, outInt, pipeVars, filterVars, showVars>>

DocNext == WriteLine \/ PreprocessPkg \/ PreprocessInt

SpecDoc == DocInit /\ [][DocNext]_vars

(***************************************************************************)
(* Stack filters (internal/utils/filters.go).                               *)
(*                                                                         *)
(* A Go string is a sequence of bytes (0..255). regexp works on the runes   *)
(* (code points) a string decodes to as UTF-8.                              *)
(***************************************************************************)
\* the printable ASCII characters from the space (32) to the underscore (95)
\* and from a (97) to the tilde (126)
Printable == " !\"#$%&'()*+,-./0123456789:;<=>?@ABCDEFGHIJKLMNOPQRSTUVWXYZ[\\]^_"
PrintableLower == "abcdefghijklmnopqrstuvwxyz{|}~"

IndexIn(table, c) == CHOOSE k \in 1..Len(table) : SubSeq(table, k, k) = c

\* the byte of a printable ASCII character
ByteOf(c) ==
    IF \E k \in 1..Len(Printable) : SubSeq(Printable, k, k) = c
    THEN 31 + IndexIn(Printable, c)
    ELSE 96 + IndexIn(PrintableLower, c)

\* the Go string a literal of printable ASCII characters denotes
GoString(s) == [i \in 1..Len(s) |-> ByteOf(SubSeq(s, i, i))]

RuneError == 65533

IsCont(b) == 128 <= b /\ b <= 191

\* utf8.DecodeRune on the bytes of b from position i: the rune, its width and
\* whether the bytes are a valid encoding (an invalid byte decodes to
\* RuneError, width 1)
DecodeRune(b, i) ==
    LET n == Len(b) - i + 1
        b0 == b[i]
        Bad == [rune |-> RuneError, width |-> 1, valid |-> FALSE]
    IN  IF b0 < 128 THEN [rune |-> b0, width |-> 1, valid |-> TRUE]
        ELSE IF b0 >= 194 /\ b0 <= 223
        THEN IF n >= 2 /\ IsCont(b[i + 1])
             THEN [rune |-> (b0 % 32) * 64 + (b[i + 1] % 64), width |-> 2, valid |-> TRUE]
             ELSE Bad
        ELSE IF b0 >= 224 /\ b0 <= 239
        THEN IF /\ n >= 3
                /\ b[i + 1] >= (IF b0 = 224 THEN 160 ELSE 128)
                /\ b[i + 1] <= (IF b0 = 237 THEN 159 ELSE 191)
                /\ IsCont(b[i + 2])
             THEN [rune |-> (b0 % 16) * 4096 + (b[i + 1] % 64) * 64 + (b[i + 2] % 64),
                   width |-> 3, valid |-> TRUE]
             ELSE Bad
        ELSE IF b0 >= 240 /\ b0 <= 244
        THEN IF /\ n >= 4
                /\ b[i + 1] >= (IF b0 = 240 THEN 144 ELSE 128)
                /\ b[i + 1] <= (IF b0 = 244 THEN 143 ELSE 191)
                /\ IsCont(b[i + 2])
                /\ IsCont(b[i + 3])
             THEN [rune |-> (b0 % 8) * 262144 + (b[i + 1] % 64) * 4096
                               + (b[i + 2] % 64) * 64 + (b[i + 3] % 64),
                   width |-> 4, valid |-> TRUE]
             ELSE Bad
        ELSE Bad

\* the runes of a string, as a range loop or regexp reads them
RECURSIVE RunesFrom(_, _)
RunesFrom(b, i) ==
    IF i > Len(b) THEN <<>>
    ELSE LET d == DecodeRune(b, i) IN <<d.rune>> \o RunesFrom(b, i + d.width)

Runes(b) == RunesFrom(b, 1)

RECURSIVE ValidFrom(_, _)
ValidFrom(b, i) ==
    IF i > Len(b) THEN TRUE
    ELSE LET d == DecodeRune(b, i) IN d.valid /\ ValidFrom(b, i + d.width)

\* utf8.ValidString
ValidString(b) == ValidFrom(b, 1)

\* string(c) for a byte c: the UTF-8 encoding of the rune whose code point is
\* the byte's value
ByteToString(c) ==
    IF c < 128 THEN <<c>> ELSE <<192 + (c \div 64), 128 + (c % 64)>>

\* strings.Index(s, sub), counted from 1; 0 when sub is not in s
Index(s, sub) ==
    LET at == { i \in 1..(Len(s) - Len(sub) + 1) : SubSeq(s, i, i + Len(sub) - 1) = sub }
    IN  IF at = {} THEN 0 ELSE CHOOSE i \in at : \A j \in at : i <= j

\* strings.Contains(s, sub)
Contains(s, sub) == Index(s, sub) # 0

\* strings.TrimPrefix(s, p)
TrimPrefix(s, p) == IF HasPrefix(s, p) THEN SubSeq(s, Len(p) + 1, Len(s)) ELSE s

\* strings.SplitN(s, sep, 2)
SplitN2(s, sep) ==
    LET i == Index(s, sep)
    IN  IF i = 0 THEN <<s>>
        ELSE <<SubSeq(s, 1, i - 1), SubSeq(s, i + Len(sep), Len(s))>>

\* the white space strings.TrimSpace cuts from an ASCII string
IsSpaceByte(c) == c \in {9, 10, 11, 12, 13, 32}

RECURSIVE TrimSpaceLeft(_)
TrimSpaceLeft(s) ==
    IF s = <<>> \/ ~IsSpaceByte(s[1]) THEN s ELSE TrimSpaceLeft(Tail(s))

RECURSIVE TrimSpaceRight(_)
TrimSpaceRight(s) ==
    IF s = <<>> \/ ~IsSpaceByte(s[Len(s)]) THEN s
    ELSE TrimSpaceRight(SubSeq(s, 1, Len(s) - 1))

\* strings.TrimSpace(s) on a string of bytes
TrimSpaceBytes(s) == TrimSpaceRight(TrimSpaceLeft(s))

(***************************************************************************)
(* regexp.MatchString(pattern, s) for the syntax the filters are written    *)
(* in: literals, ".", "^", "$", "*", "+", "?" (and their non-greedy forms), *)
(* groups, alternation, bracket classes with ranges and negation, and the   *)
(* escapes \d \D \w \W \s \S \b \B \A \z \a \f \n \r \t \v and escaped      *)
(* punctuation. A pattern is parsed from its runes into a tree; a tree is   *)
(* matched by the set of positions a match starting at a position can end.  *)
(***************************************************************************)
MaxRune == 1114111

RClass(neg, ranges) == [kind |-> "class", neg |-> neg, ranges |-> ranges, kids |-> <<>>]
ROp(kind, kids) == [kind |-> kind, neg |-> FALSE, ranges |-> {}, kids |-> kids]
RLit(c) == RClass(FALSE, {<<c, c>>})

Digits == {<<48, 57>>}
NotDigits == {<<0, 47>>, <<58, MaxRune>>}
WordChars == {<<48, 57>>, <<65, 90>>, <<95, 95>>, <<97, 122>>}
NotWordChars == {<<0, 47>>, <<58, 64>>, <<91, 94>>, <<96, 96>>, <<123, MaxRune>>}
Spaces == {<<9, 10>>, <<12, 13>>, <<32, 32>>}
NotSpaces == {<<0, 8>>, <<11, 11>>, <<14, 31>>, <<33, MaxRune>>}

IsAlnum(c) == (48 <= c /\ c <= 57) \/ (65 <= c /\ c <= 90) \/ (97 <= c /\ c <= 122)

Parsed(node, pos) == [err |-> "", node |-> node, pos |-> pos]
ParseError(msg) == [err |-> msg, node |-> ROp("empty", <<>>), pos |-> 0]

\* the ranges of a class escape (\d and the like), {} when c is none
PerlClass(c) ==
    CASE c = 100 -> Digits
      [] c = 68 -> NotDigits
      [] c = 119 -> WordChars
      [] c = 87 -> NotWordChars
      [] c = 115 -> Spaces
      [] c = 83 -> NotSpaces
      [] OTHER -> {}

\* the character an escape denotes (parseEscape), -1 when it denotes none
EscapedChar(c) ==
    CASE c < 128 /\ ~IsAlnum(c) -> c
      [] c = 97 -> 7
      [] c = 102 -> 12
      [] c = 110 -> 10
      [] c = 114 -> 13
      [] c = 116 -> 9
      [] c = 118 -> 11
      [] OTHER -> -1

\* the members of a bracket class, p[i] being the first rune after "[" or "[^"
RECURSIVE ClassItems(_, _, _, _)
ClassItems(p, i, ranges, first) ==
    IF i > Len(p) THEN ParseError("missing closing ]")
    ELSE IF p[i] = 93 /\ ~first THEN Parsed(RClass(FALSE, ranges), i + 1)
    ELSE IF p[i] = 92 /\ i = Len(p) THEN ParseError("trailing backslash")
    ELSE IF p[i] = 92 /\ PerlClass(p[i + 1]) # {}
    THEN ClassItems(p, i + 2, ranges \cup PerlClass(p[i + 1]), FALSE)
    ELSE LET lo == IF p[i] = 92 THEN EscapedChar(p[i + 1]) ELSE p[i]
             j == IF p[i] = 92 THEN i + 2 ELSE i + 1
         IN  IF lo = -1 THEN ParseError("invalid escape sequence")
             ELSE IF j + 1 <= Len(p) /\ p[j] = 45 /\ p[j + 1] # 93
             THEN IF p[j + 1] = 92 /\ j + 1 = Len(p) THEN ParseError("trailing backslash")
                  ELSE LET hi == IF p[j + 1] = 92 THEN EscapedChar(p[j + 2]) ELSE p[j + 1]
                           k == IF p[j + 1] = 92 THEN j + 3 ELSE j + 2
                       IN  IF hi = -1 THEN ParseError("invalid escape sequence")
                           ELSE IF hi < lo THEN ParseError("invalid character class range")
                           ELSE ClassItems(p, k, ranges \cup {<<lo, hi>>}, FALSE)
             ELSE ClassItems(p, j, ranges \cup {<<lo, lo>>}, FALSE)

ParseClass(p, i) ==
    IF i <= Len(p) /\ p[i] = 94
    THEN LET r == ClassItems(p, i + 1, {}, TRUE)
         IN  IF r.err # "" THEN r ELSE Parsed(RClass(TRUE, r.node.ranges), r.pos)
    ELSE ClassItems(p, i, {}, TRUE)

\* an escape outside a class, p[i] being the rune after the backslash
ParseEscape(p, i) ==
    IF i > Len(p) THEN ParseError("trailing backslash")
    ELSE LET c == p[i]
         IN  IF PerlClass(c) # {} THEN Parsed(RClass(FALSE, PerlClass(c)), i + 1)
             ELSE IF c = 65 THEN Parsed(ROp("bol", <<>>), i + 1)
             ELSE IF c = 122 THEN Parsed(ROp("eol", <<>>), i + 1)
             ELSE IF c = 98 THEN Parsed(ROp("wordb", <<>>), i + 1)
             ELSE IF c = 66 THEN Parsed(ROp("nowordb", <<>>), i + 1)
             ELSE IF EscapedChar(c) # -1 THEN Parsed(RLit(EscapedChar(c)), i + 1)
             ELSE ParseError("invalid escape sequence")

RepeatKind(c) == CASE c = 42 -> "star" [] c = 43 -> "plus" [] OTHER -> "quest"

RECURSIVE ParseAlt(_, _, _), ParseConcat(_, _, _, _)
\* the alternatives from p[i] up to the end of the pattern or of the group
ParseAlt(p, i, branches) ==
    LET r == ParseConcat(p, i, <<>>, FALSE)
    IN  IF r.err # "" THEN r
        ELSE IF r.pos <= Len(p) /\ p[r.pos] = 124
        THEN ParseAlt(p, r.pos + 1, Append(branches, r.node))
        ELSE Parsed(ROp("alt", Append(branches, r.node)), r.pos)

\* the items of one alternative; lastRepeat: the item before p[i] is a
\* repetition operator
ParseConcat(p, i, items, lastRepeat) ==
    IF i > Len(p) \/ p[i] \in {124, 41} THEN Parsed(ROp("cat", items), i)
    ELSE LET c == p[i]
             Item(r) == IF r.err # "" THEN r
                        ELSE ParseConcat(p, r.pos, Append(items, r.node), FALSE)
         IN  IF c \in {42, 43, 63}
             THEN IF lastRepeat THEN ParseError("invalid nested repetition operator")
                  ELSE IF items = <<>> THEN ParseError("missing argument to repetition operator")
                  ELSE LET n == Len(items)
                           rep == ROp(RepeatKind(c), <<items[n]>>)
                           after == IF i + 1 <= Len(p) /\ p[i + 1] = 63 THEN i + 2 ELSE i + 1
                       IN  ParseConcat(p, after, Append(SubSeq(items, 1, n - 1), rep), TRUE)
             ELSE IF c = 40
             THEN LET r == ParseAlt(p, i + 1, <<>>)
                  IN  IF r.err # "" THEN r
                      ELSE IF r.pos > Len(p) THEN ParseError("missing closing )")
                      ELSE ParseConcat(p, r.pos + 1, Append(items, r.node), FALSE)
             ELSE IF c = 91 THEN Item(ParseClass(p, i + 1))
             ELSE IF c = 92 THEN Item(ParseEscape(p, i + 1))
             ELSE IF c = 46 THEN Item(Parsed(RClass(TRUE, {<<10, 10>>}), i + 1))
             ELSE IF c = 94 THEN Item(Parsed(ROp("bol", <<>>), i + 1))
             ELSE IF c = 36 THEN Item(Parsed(ROp("eol", <<>>), i + 1))
             ELSE Item(Parsed(RLit(c), i + 1))

\* regexp.Compile(pattern)
Compile(pattern) ==
    IF ~ValidString(pattern) THEN ParseError("invalid UTF-8")
    ELSE LET Whole(p) ==
                 LET Checked(r) == IF r.err # "" THEN r
                                   ELSE IF r.pos <= Len(p) THEN ParseError("unexpected )")
                                   ELSE r
                 IN  Once(ParseAlt(p, 1, <<>>), Checked)
         IN  Once(Runes(pattern), Whole)

InClass(c, node) == node.neg # (\E rg \in node.ranges : rg[1] <= c /\ c <= rg[2])

IsWordAt(rs, i) == i >= 1 /\ i <= Len(rs) /\ InClass(rs[i], RClass(FALSE, WordChars))

RECURSIVE Ends(_, _, _), EndsCat(_, _, _, _), EndsStar(_, _, _)
\* the positions at which a match of node that starts at position i of the
\* runes rs can end
Ends(node, rs, i) ==
    CASE node.kind = "class" ->
            IF i <= Len(rs) /\ InClass(rs[i], node) THEN {i + 1} ELSE {}
      [] node.kind = "bol" -> IF i = 1 THEN {i} ELSE {}
      [] node.kind = "eol" -> IF i = Len(rs) + 1 THEN {i} ELSE {}
      [] node.kind = "wordb" -> IF IsWordAt(rs, i - 1) # IsWordAt(rs, i) THEN {i} ELSE {}
      [] node.kind = "nowordb" -> IF IsWordAt(rs, i - 1) = IsWordAt(rs, i) THEN {i} ELSE {}
      [] node.kind = "cat" -> EndsCat(node.kids, 1, rs, {i})
      [] node.kind = "alt" -> UNION { Ends(node.kids[k], rs, i) : k \in 1..Len(node.kids) }
      [] node.kind = "star" -> EndsStar(node.kids[1], rs, {i})
      [] node.kind = "plus" -> EndsStar(node.kids[1], rs, Ends(node.kids[1], rs, i))
      [] node.kind = "quest" -> {i} \cup Ends(node.kids[1], rs, i)
      [] OTHER -> {i}

EndsCat(kids, k, rs, from) ==
    IF k > Len(kids) THEN from
    ELSE EndsCat(kids, k + 1, rs, UNION { Ends(kids[k], rs, j) : j \in from })

EndsStar(kid, rs, from) ==
    LET Grow(more) == IF more = from THEN from ELSE EndsStar(kid, rs, more)
    IN  Once(from \cup UNION { Ends(kid, rs, j) : j \in from }, Grow)

\* regexp.MatchString(pattern, s): the error, and whether some part of s
\* matches
MatchString(pattern, s) ==
    LET Match(a) ==
            LET re == a[1]
                rs == a[2]
            IN  [err |-> re.err,
                 matched |-> re.err = ""
                                /\ \E i \in 1..(Len(rs) + 1) : Ends(re.node, rs, i) # {}]
    IN  Once(<<Compile(pattern), Runes(s)>>, Match)

(***************************************************************************)
(* filters.go. A stack is its Name and its Labels (a map from label key to  *)
(* label value). The file holds two versions of FilterStacks: the one that  *)
(* knows label filters only (lines 11-53) and the one that also knows name  *)
(* filters (lines 75-224).                                                  *)
(***************************************************************************)
\* an entry of logger.Log: its level and its message (the format string); the
\* key-value pairs of a structured entry are stack, files and count
Entry(level, msg) == [level |-> level, msg |-> msg, stack |-> <<>>, files |-> <<>>, count |-> 0]

Eq == <<61>>          \* "="
NotEq == <<33, 61>>   \* "!="

\* stack.Labels[key]
HasLabel(stack, key) == key \in DOMAIN stack.Labels

\* lines 19-45: the body of the loop over the filters; FALSE when the filter
\* sets include to false
LabelFilterKeeps(stack, filter) ==
    IF Contains(filter, NotEq)
    THEN LET parts == SplitN2(filter, NotEq)
             key == TrimSpaceBytes(parts[1])
             value == TrimSpaceBytes(parts[2])
         IN  ~(HasLabel(stack, key) /\ stack.Labels[key] = value)
    ELSE IF Contains(filter, Eq)
    THEN LET parts == SplitN2(filter, Eq)
             key == TrimSpaceBytes(parts[1])
             value == TrimSpaceBytes(parts[2])
         IN  ~(~HasLabel(stack, key) \/ stack.Labels[key] # value)
    ELSE TRUE

\* lines 16-45: include after the loop, which stops at the first filter that
\* sets it to false
RECURSIVE IncludeByLabels(_, _)
IncludeByLabels(stack, fs) ==
    IF fs = <<>> THEN TRUE
    ELSE IF ~LabelFilterKeeps(stack, fs[1]) THEN FALSE
    ELSE IncludeByLabels(stack, Tail(fs))

\* FilterStacks, lines 11-53
RECURSIVE FilterStacksByLabels(_, _)
FilterStacksByLabels(ss, fs) ==
    IF ss = <<>> THEN <<>>
    ELSE (IF IncludeByLabels(ss[1], fs) THEN <<ss[1]>> ELSE <<>>)
             \o FilterStacksByLabels(Tail(ss), fs)

\* lines 19-45: what the body of the loop writes to logger.Log for one filter
\* (the Warnf of line 43)
LabelFilterLog(filter) ==
    IF Contains(filter, NotEq) THEN <<>>
    ELSE IF Contains(filter, Eq) THEN <<>>
    ELSE <<Entry("warn",
                 "Ignoring malformed filter: %s (expected format: key=value or key!=value)")>>

\* lines 16-45: the entries the loop over the filters writes for one stack; it
\* stops at the first filter that sets include to false
RECURSIVE IncludeByLabelsLog(_, _)
IncludeByLabelsLog(stack, fs) ==
    IF fs = <<>> THEN <<>>
    ELSE LabelFilterLog(fs[1])
             \o (IF ~LabelFilterKeeps(stack, fs[1]) THEN <<>>
                 ELSE IncludeByLabelsLog(stack, Tail(fs)))

\* FilterStacks, lines 11-53: the entries it writes to logger.Log
RECURSIVE FilterStacksByLabelsLog(_, _)
FilterStacksByLabelsLog(ss, fs) ==
    IF ss = <<>> THEN <<>>
    ELSE IncludeByLabelsLog(ss[1], fs) \o FilterStacksByLabelsLog(Tail(ss), fs)

Star == 42           \* '*'
Quest == 63          \* '?'
Backslash == <<92>>  \* the backslash
DotStar == <<46, 42>>  \* ".*"
Dot == <<46>>          \* "."
Caret == <<94>>        \* "^"
Dollar == <<36>>       \* "$"

\* line 208: the characters MatchWildcard escapes:
\* . \ + ( ) [ ] { } ^ $ |
Escaped == {46, 92, 43, 40, 41, 91, 93, 123, 125, 94, 36, 124}

\* lines 202-215: the regular expression MatchWildcard builds, byte by byte
RECURSIVE WildcardRegex(_, _)
WildcardRegex(pattern, i) ==
    IF i > Len(pattern) THEN Dollar
    ELSE LET c == pattern[i]
             piece == IF c = Star THEN DotStar
                      ELSE IF c = Quest THEN Dot
                      ELSE IF c \in Escaped THEN Backslash \o ByteToString(c)
                      ELSE ByteToString(c)
         IN  piece \o WildcardRegex(pattern, i + 1)

\* MatchWildcard, lines 199-224
MatchWildcard(s, pattern) ==
    LET Result(m) == IF m.err # "" THEN FALSE ELSE m.matched
    IN  Once(MatchString(Caret \o WildcardRegex(pattern, 1), s), Result)

\* MatchWildcard, lines 218-222: the entry written when regexp.MatchString
\* fails, which it does exactly when the expression does not compile
MatchWildcardLog(s, pattern) ==
    IF Compile(Caret \o WildcardRegex(pattern, 1)).err # ""
    THEN <<Entry("warn", "Error matching pattern %s: %v")>>
    ELSE <<>>

Slash == 47          \* '/'

\* isRegexPatternInSlashes, lines 145-147
isRegexPatternInSlashes(filter) ==
    Len(filter) > 2 /\ filter[1] = Slash /\ filter[Len(filter)] = Slash

\* applyNameRegexPattern, lines 162-169
applyNameRegexPattern(name, pattern) ==
    LET Result(m) == IF m.err # "" THEN TRUE ELSE m.matched
    IN  Once(MatchString(pattern, name), Result)

\* applyNameRegexPattern, lines 163-167: the entry written when
\* regexp.MatchString fails
applyNameRegexPatternLog(name, pattern) ==
    IF Compile(pattern).err # ""
    THEN <<Entry("warn", "Invalid regex pattern: %s, error: %v")>>
    ELSE <<>>

\* applyRegexPattern, lines 152-157: the entry written when regexp.MatchString
\* fails
applyRegexPatternLog(name, filter) ==
    IF Compile(SubSeq(filter, 2, Len(filter) - 1)).err # ""
    THEN <<Entry("warn", "Invalid regex pattern: %s, error: %v")>>
    ELSE <<>>

\* applyRegexPattern, lines 150-159
applyRegexPattern(name, filter) ==
    LET pattern == SubSeq(filter, 2, Len(filter) - 1)
        Result(m) == IF m.err # "" THEN TRUE ELSE m.matched
    IN  Once(MatchString(pattern, name), Result)

\* applyLabelEqualsFilter, lines 172-182
applyLabelEqualsFilter(stack, filter) ==
    LET parts == SplitN2(filter, Eq)
    IN  IF Len(parts) # 2 THEN TRUE
        ELSE LET key == TrimSpaceBytes(parts[1])
                 value == TrimSpaceBytes(parts[2])
             IN  HasLabel(stack, key) /\ stack.Labels[key] = value

\* applyLabelNotEqualsFilter, lines 185-195
applyLabelNotEqualsFilter(stack, filter) ==
    LET parts == SplitN2(filter, NotEq)
    IN  IF Len(parts) # 2 THEN TRUE
        ELSE LET key == TrimSpaceBytes(parts[1])
                 value == TrimSpaceBytes(parts[2])
             IN  ~HasLabel(stack, key) \/ stack.Labels[key] # value

NameEq == <<110, 97, 109, 101, 61>>           \* "name="
NameNotEq == <<110, 97, 109, 101, 33, 61>>    \* "name!="
NameRe == <<110, 97, 109, 101, 126, 61>>      \* "name~="
NameNotRe == <<110, 97, 109, 101, 33, 126, 61>>  \* "name!~="
NameWord == <<110, 97, 109, 101>>             \* "name"

\* applyFilter, lines 104-142
applyFilter(stack, filter) ==
    IF isRegexPatternInSlashes(filter) THEN applyRegexPattern(stack.Name, filter)
    ELSE IF HasPrefix(filter, NameEq)
    THEN MatchWildcard(stack.Name, TrimPrefix(filter, NameEq))
    ELSE IF HasPrefix(filter, NameNotEq)
    THEN ~MatchWildcard(stack.Name, TrimPrefix(filter, NameNotEq))
    ELSE IF HasPrefix(filter, NameRe)
    THEN applyNameRegexPattern(stack.Name, TrimPrefix(filter, NameRe))
    ELSE IF HasPrefix(filter, NameNotRe)
    THEN ~applyNameRegexPattern(stack.Name, TrimPrefix(filter, NameNotRe))
    ELSE IF Contains(filter, NotEq) /\ ~HasPrefix(filter, NameWord)
    THEN applyLabelNotEqualsFilter(stack, filter)
    ELSE IF Contains(filter, Eq) /\ ~HasPrefix(filter, NameWord)
    THEN applyLabelEqualsFilter(stack, filter)
    ELSE MatchWildcard(stack.Name, filter)

\* applyFilter, lines 104-142: the entries the function it calls writes to
\* logger.Log
applyFilterLog(stack, filter) ==
    IF isRegexPatternInSlashes(filter) THEN applyRegexPatternLog(stack.Name, filter)
    ELSE IF HasPrefix(filter, NameEq)
    THEN MatchWildcardLog(stack.Name, TrimPrefix(filter, NameEq))
    ELSE IF HasPrefix(filter, NameNotEq)
    THEN MatchWildcardLog(stack.Name, TrimPrefix(filter, NameNotEq))
    ELSE IF HasPrefix(filter, NameRe)
    THEN applyNameRegexPatternLog(stack.Name, TrimPrefix(filter, NameRe))
    ELSE IF HasPrefix(filter, NameNotRe)
    THEN applyNameRegexPatternLog(stack.Name, TrimPrefix(filter, NameNotRe))
    ELSE IF Contains(filter, NotEq) /\ ~HasPrefix(filter, NameWord)
    THEN <<>>
    ELSE IF Contains(filter, Eq) /\ ~HasPrefix(filter, NameWord)
    THEN <<>>
    ELSE MatchWildcardLog(stack.Name, filter)

\* a loop that includes the stack as soon as one filter matches
shouldIncludeStackAny(stack, fs) ==
    fs = <<>> \/ \E k \in 1..Len(fs) : applyFilter(stack, fs[k])

\* shouldIncludeStack, lines 88-101
RECURSIVE shouldIncludeStack(_, _)
shouldIncludeStack(stack, fs) ==
    IF fs = <<>> THEN TRUE
    ELSE IF ~applyFilter(stack, fs[1]) THEN FALSE
    ELSE shouldIncludeStack(stack, Tail(fs))

\* FilterStacks, lines 75-85
RECURSIVE FilterStacks(_, _)
FilterStacks(ss, fs) ==
    IF ss = <<>> THEN <<>>
    ELSE (IF shouldIncludeStack(ss[1], fs) THEN <<ss[1]>> ELSE <<>>)
             \o FilterStacks(Tail(ss), fs)

\* shouldIncludeStack, lines 88-101: the entries written while the filters
\* are applied to one stack, up to the first filter that rejects it
RECURSIVE shouldIncludeStackLog(_, _)
shouldIncludeStackLog(stack, fs) ==
    IF fs = <<>> THEN <<>>
    ELSE applyFilterLog(stack, fs[1])
             \o (IF ~applyFilter(stack, fs[1]) THEN <<>>
                 ELSE shouldIncludeStackLog(stack, Tail(fs)))

\* FilterStacks, lines 75-85: the entries it writes to logger.Log, stack by
\* stack
RECURSIVE FilterStacksLog(_, _)
FilterStacksLog(ss, fs) ==
    IF ss = <<>> THEN <<>>
    ELSE shouldIncludeStackLog(ss[1], fs) \o FilterStacksLog(Tail(ss), fs)

(***************************************************************************)
(* The calls of FilterStacks: the stacks of TestFilterStacks, the empty     *)
(* list, and a list with a stack labelled namespace=prod, a stack named     *)
(* after a filter and a stack without labels; every list of at most         *)
(* MaxFilters filters of FilterSet, which holds the filters of the test and *)
(* a filter of each documented format, well formed and malformed.           *)
(***************************************************************************)
MaxFilters == 2

Stack(name, labels) == [Name |-> GoString(name), Labels |-> labels]
Label(k, v) == (GoString(k) :> GoString(v))

TestStacks ==
    << Stack("dev-stack-1", Label("env", "dev") @@ Label("region", "us-east-1")),
       Stack("prod-stack-1", Label("env", "prod") @@ Label("region", "us-west-1")),
       Stack("prod-stack-2", Label("env", "prod") @@ Label("region", "us-east-1")),
       Stack("test-stack", Label("env", "test") @@ Label("region", "eu-west-1")) >>

OtherStacks ==
    << Stack("prod", Label("namespace", "prod") @@ Label("env", "prod")),
       Stack("namespace=prod", Label("env", "dev")),
       Stack("dev-stack-1", <<>>),
       Stack("prod", Label("namespace", "dev") @@ Label("name", "prod")) >>

StackLists == { <<>>, TestStacks, OtherStacks }

FilterSet ==
    { GoString("env=prod"),
      GoString("env!=prod"),
      GoString("region=us-east-1"),
      GoString(" env = prod "),
      GoString("owner!=ops"),
      GoString("namespace=prod"),
      GoString("namespace!=prod"),
      GoString("name=prod-*"),
      GoString("name!=*-stack-?"),
      GoString("name~=^prod-.*$"),
      GoString("name!~=^prod-.*$"),
      GoString("name~=^(dev|prod)-stack-\\d+$"),
      GoString("name~=*"),
      GoString("name!~=*"),
      GoString("prod-*"),
      GoString("*-1"),
      GoString("/^prod/"),
      GoString("/.*-stack-[12]$/"),
      GoString("/(/") }

FilterLists == UNION { [1..n -> FilterSet] : n \in 0..MaxFilters }

Filtered(ss) == [done |-> TRUE, stacks |-> ss]

FilterInit ==
    /\ text = <<>>
    /\ outPkg = NotRun
    /\ outInt = NotRun
    /\ PipeIdle
    /\ stacks \in StackLists
    /\ filters \in FilterLists
    /\ filteredStacks = NotFiltered
    /\ labelFiltered = NotFiltered
    /\ matched = NotMatched
    /\ ShowIdle

\* FilterStacks(stacks, filters) of lines 75-85
CallFilterStacks ==
    /\ ~filteredStacks.done
    /\ filteredStacks' = Filtered(FilterStacks(stacks, filters))
    /\ log' = log \o FilterStacksLog(stacks, filters)
    /\ UNCHANGED <<normVars, pipeVars, showVarsButLog, stacks, filters, labelFiltered,
                   matched>>

\* FilterStacks(stacks, filters) of lines 11-53
CallFilterStacksByLabels ==
    /\ ~labelFiltered.done
    /\ labelFiltered' = Filtered(FilterStacksByLabels(stacks, filters))
    /\ log' = log \o FilterStacksByLabelsLog(stacks, filters)
    /\ UNCHANGED <<normVars, pipeVars, showVarsButLog, stacks, filters, filteredStacks,
                   matched>>

FilterNext == CallFilterStacks \/ CallFilterStacksByLabels

SpecFilter == FilterInit /\ [][FilterNext]_vars

(***************************************************************************)
(* The calls of MatchWildcard: every string of at most MaxNameLen bytes of  *)
(* NameBytes (a, b, ".", a newline and the two bytes of the UTF-8 encoding  *)
(* of U+00E9) against every pattern of at most MaxPatternLen bytes of       *)
(* PatternBytes (a, ".", "*", "?" and the same two bytes).                  *)
(***************************************************************************)
MaxNameLen == 3
MaxPatternLen == 3

NameBytes == {97, 98, 46, 10, 195, 169}
PatternBytes == {97, 46, 42, 63, 195, 169}

StringsOver(bytes, n) == UNION { [1..k -> bytes] : k \in 0..n }

MatchInit ==
    /\ text = <<>>
    /\ outPkg = NotRun
    /\ outInt = NotRun
    /\ PipeIdle
    /\ stacks = <<>>
    /\ filters = <<>>
    /\ filteredStacks = NotFiltered
    /\ labelFiltered = NotFiltered
    /\ matched \in [done : {FALSE}, s : StringsOver(NameBytes, MaxNameLen),
                    pattern : StringsOver(PatternBytes, MaxPatternLen), result : {FALSE}]
    /\ ShowIdle

\* MatchWildcard(s, pattern)
CallMatchWildcard ==
    /\ ~matched.done
    /\ matched' = [matched EXCEPT !.done = TRUE,
                                  !.result = MatchWildcard(matched.s, matched.pattern)]
    /\ log' = log \o MatchWildcardLog(matched.s, matched.pattern)
    /\ UNCHANGED <<normVars, pipeVars, showVarsButLog, stacks, filters, filteredStacks,
                   labelFiltered>>

MatchNext == CallMatchWildcard

SpecMatch == MatchInit /\ [][MatchNext]_vars

(***************************************************************************)
(* cmd: the show stack command, runShowStackCmd, as a step machine. The    *)
(* stack finder is an input: finder is what FindStacks returns for the     *)
(* configured stacksPath, a list of up to MaxStacks stack files or an      *)
(* error. The content of the selected stack file is outside the model:     *)
(* extractComponents and extractComponentVars end in any of their outcomes. *)
(***************************************************************************)
\* the first loop of FindDuplicateStacks (filters_test.go 259-265)
RECURSIVE NameToPath(_, _)
NameToPath(nameToPath, ss) ==
    IF ss = <<>> THEN nameToPath
    ELSE NameToPath(MapAppend(nameToPath, ss[1].Name, ss[1].FilePath), Tail(ss))

\* a plausible slip: the second loop with len(paths) > 0
DuplicatesAmongAny(nameToPath) ==
    [name \in { n \in DOMAIN nameToPath : Len(nameToPath[n]) > 0 } |-> nameToPath[name]]

\* the second loop of FindDuplicateStacks (filters_test.go 267-273)
DuplicatesAmong(nameToPath) ==
    [name \in { n \in DOMAIN nameToPath : Len(nameToPath[n]) > 1 } |-> nameToPath[name]]

\* FindDuplicateStacks, filters_test.go 258-276
FindDuplicateStacks(ss) == DuplicatesAmong(NameToPath(EmptyMap, ss))

MaxStacks == 4

ProdName == <<112, 114, 111, 100>>   \* "prod"
DevName == <<100, 101, 118>>         \* "dev"
QaName == <<113, 97>>                \* "qa"
EnvKey == <<101, 110, 118>>          \* "env"
StackNames == {ProdName, DevName}

\* the k-th stack file found, "stacks/s<k>.yaml", holding a stack called name
StackAt(k, name) ==
    [Name |-> name,
     Labels |-> (EnvKey :> name),
     FilePath |-> <<115, 116, 97, 99, 107, 115, 47, 115, 48 + k, 46, 121, 97, 109, 108>>]

Discovered ==
    UNION { { [k \in 1..n |-> StackAt(k, names[k])] : names \in [1..n -> StackNames] } :
            n \in 0..MaxStacks }

\* --filter "/(/": a regular expression that does not compile
InvalidRegexFilterArg == <<47, 40, 47>>

Op(name, file) == [op |-> name, file |-> file]

\* the entry of lines 755-760: "[" + strings.Join(stackFiles, ", ") + "]"
DuplicateEntry(name, stackFiles) ==
    [level |-> "error", msg |-> "duplicate stack detected", stack |-> name,
     files |-> <<91>> \o Join(stackFiles, <<44, 32>>) \o <<93>>,
     count |-> Len(stackFiles)]

\* the orders in which a range loop may visit the keys of a map
KeyOrders(m) ==
    { o \in [1..Cardinality(DOMAIN m) -> DOMAIN m] :
        \A i, j \in 1..Cardinality(DOMAIN m) : o[i] = o[j] => i = j }

Target(stack) ==
    [Name |-> stack.Name, Labels |-> stack.Labels, FilePath |-> stack.FilePath, found |-> TRUE]

\* logger.Log.Fatalf: the entry is written and the process exits with status 1
Fatalf(msg) ==
    /\ log' = Append(log, Entry("fatal", msg))
    /\ exitCode' = Exited(1)
    /\ showPc' = "exited"

\* logger.Log.Infof followed by return
InfoReturn(msg) ==
    /\ log' = Append(log, Entry("info", msg))
    /\ exitCode' = Exited(0)
    /\ showPc' = "returned"

ShowInit ==
    /\ text = <<>>
    /\ outPkg = NotRun
    /\ outInt = NotRun
    /\ PipeIdle
    /\ stacks = <<>>
    /\ filters \in {<<>>, <<EnvKey \o <<61>> \o ProdName>>, <<EnvKey \o <<61>> \o QaName>>,
                     <<InvalidRegexFilterArg>>}
    /\ filteredStacks = NotFiltered
    /\ labelFiltered = NotFiltered
    /\ matched = NotMatched
    /\ flags \in [tfVars : BOOLEAN, jsonOutput : BOOLEAN,
                  componentName : {<<>>, <<118, 112, 99>>},
                  stacksPath : {<<>>, <<115, 116, 97, 99, 107, 115, 47, 42>>}]
    /\ stackName \in {<<>>, ProdName, QaName}
    /\ finder \in {[stacks |-> <<>>, err |-> TRUE]}
                     \cup { [stacks |-> d, err |-> FALSE] : d \in Discovered }
    /\ showPc = "flags"
    /\ duplicates = <<>>
    /\ targetStack = NoStack
    /\ log = <<>>
    /\ exitCode = Running
    /\ ops = <<>>

\* runShowStackCmd, lines 726-745: the flags and the configuration. The
\* filter flag is registered by init, so GetStringArray returns no error.
ShowCheckFlags ==
    /\ showPc = "flags"
    /\ IF stackName = <<>> /\ Len(filters) = 0
       THEN Fatalf("Error: either stack name or filter is required. Use --stackName/-s or --filter")
       ELSE IF flags.tfVars /\ flags.componentName = <<>>
       THEN Fatalf("Error: --tfvars can only be used with --component")
       ELSE IF flags.stacksPath = <<>>
       THEN Fatalf("Error: stacksPath not defined in config")
       ELSE showPc' = "find" /\ UNCHANGED <<log, exitCode>>
    /\ UNCHANGED <<normVars, pipeVars, filterVars, flags, stackName, finder, duplicates,
                   targetStack, ops>>

\* lines 747-750
ShowFindStacks ==
    /\ showPc = "find"
    /\ ops' = Append(ops, Op("FindStacks", flags.stacksPath))
    /\ IF finder.err
       THEN Fatalf("Error finding stacks: %v") /\ UNCHANGED stacks
       ELSE /\ stacks' = finder.stacks
            /\ showPc' = "duplicates"
            /\ UNCHANGED <<log, exitCode>>
    /\ UNCHANGED <<normVars, pipeVars, filters, filteredStacks, labelFiltered, matched,
                   flags, stackName, finder, duplicates, targetStack>>

\* a plausible slip: the duplicates are logged and the command goes on
ShowCheckDuplicatesLogOnly ==
    /\ showPc = "duplicates"
    /\ duplicates' = FindDuplicateStacks(stacks)
    /\ ops' = Append(ops, Op("FindDuplicateStacks", <<>>))
    /\ \E order \in KeyOrders(duplicates') :
          log' = log \o [k \in 1..Len(order) |->
                            DuplicateEntry(order[k], duplicates'[order[k]])]
    /\ showPc' = "filter"
    /\ UNCHANGED <<normVars, pipeVars, filterVars, flags, stackName, finder, targetStack,
                   exitCode>>

\* lines 753-764: the duplicate check; os.Exit(1) after the entries are logged
ShowCheckDuplicates ==
    /\ showPc = "duplicates"
    /\ duplicates' = FindDuplicateStacks(stacks)
    /\ ops' = Append(ops, Op("FindDuplicateStacks", <<>>))
    /\ IF Cardinality(DOMAIN duplicates') > 0
       THEN /\ \E order \in KeyOrders(duplicates') :
                  log' = log \o [k \in 1..Len(order) |->
                                    DuplicateEntry(order[k], duplicates'[order[k]])]
            /\ exitCode' = Exited(1)
            /\ showPc' = "exited"
       ELSE showPc' = "filter" /\ UNCHANGED <<log, exitCode>>
    /\ UNCHANGED <<normVars, pipeVars, filterVars, flags, stackName, finder, targetStack>>

\* lines 767-773
ShowApplyFilters ==
    /\ showPc = "filter"
    /\ IF Len(filters) > 0
       THEN /\ stacks' = FilterStacks(stacks, filters)
            /\ ops' = Append(ops, Op("FilterStacks", <<>>))
            /\ \E warned \in {FilterStacksLog(stacks, filters)} :
                  IF Len(stacks') = 0
                  THEN /\ log' = Append(log \o warned,
                                        Entry("info", "No stacks match the specified filters"))
                       /\ exitCode' = Exited(0)
                       /\ showPc' = "returned"
                  ELSE /\ log' = log \o warned
                       /\ showPc' = "select"
                       /\ UNCHANGED exitCode
       ELSE showPc' = "select" /\ UNCHANGED <<stacks, ops, log, exitCode>>
    /\ UNCHANGED <<normVars, pipeVars, filters, filteredStacks, labelFiltered, matched,
                   flags, stackName, finder, duplicates, targetStack>>

\* the indices of the stacks called name
Named(ss, name) == { k \in 1..Len(ss) : ss[k].Name = name }

\* lines 775-801
ShowSelectTarget ==
    /\ showPc = "select"
    /\ IF stackName = <<>> /\ Len(stacks) > 0
       THEN /\ targetStack' = Target(stacks[1])
            /\ stackName' = stacks[1].Name
            /\ log' = Append(log, Entry("info", "Selected stack '%s' based on filter criteria"))
            /\ ops' = Append(ops, Op("select", stacks[1].FilePath))
            /\ showPc' = "extract"
            /\ UNCHANGED exitCode
       ELSE IF Named(stacks, stackName) # {}
       THEN LET i == CHOOSE k \in Named(stacks, stackName) :
                        \A j \in Named(stacks, stackName) : k <= j
            IN  /\ targetStack' = Target(stacks[i])
                /\ ops' = Append(ops, Op("select", stacks[i].FilePath))
                /\ showPc' = "extract"
                /\ UNCHANGED <<stackName, log, exitCode>>
       ELSE /\ IF stackName # <<>>
               THEN Fatalf("Error: stack with name '%s' not found")
               ELSE Fatalf("Error: no matching stack found")
            /\ UNCHANGED <<targetStack, stackName, ops>>
    /\ UNCHANGED <<normVars, pipeVars, filterVars, flags, finder, duplicates>>

\* lines 804-812: extractComponents(targetStack.FilePath) merges and parses
\* the stack file
ShowExtractComponents ==
    /\ showPc = "extract"
    /\ ops' = Append(ops, Op("extractComponents", targetStack.FilePath))
    /\ \E outcome \in {"error", "no components", "components"} :
          IF outcome = "error" THEN Fatalf("Error extracting components: %v")
          ELSE IF outcome = "no components"
          THEN InfoReturn("No components found in stack '%s'")
          ELSE showPc' = "print" /\ UNCHANGED <<log, exitCode>>
    /\ UNCHANGED <<normVars, pipeVars, filterVars, flags, stackName, finder, duplicates,
                   targetStack>>

\* return after the output is printed
Printed == exitCode' = Exited(0) /\ showPc' = "returned" /\ UNCHANGED log

\* outputComponentVarsJSON, lines 999-1007: json.MarshalIndent fails on a
\* value encoding/json cannot encode (a float that is infinite or not a
\* number, a map whose keys are not strings)
outputComponentVarsJSON(encodable) ==
    IF ~encodable THEN Fatalf("Error marshaling to JSON: %v") ELSE Printed

\* lines 815-878: the variables of the component asked for, or the components.
\* outputTerraformVars and the table printers fall back to fmt on a value
\* json.Marshal rejects; outputComponentsJSON encodes the two strings of each
\* component, which json.MarshalIndent never rejects.
ShowPrint ==
    /\ showPc = "print"
    /\ IF flags.componentName # <<>>
       THEN \E outcome \in {"not found", "error", "no variables", "variables",
                             "variables json rejects"} :
               IF outcome = "not found"
               THEN /\ Fatalf("Error: component with name '%s' not found in stack '%s'")
                    /\ UNCHANGED ops
               ELSE /\ ops' = Append(ops, Op("extractComponentVars", targetStack.FilePath))
                    /\ IF outcome = "error"
                       THEN Fatalf("Error extracting component variables: %v")
                       ELSE IF outcome = "no variables"
                       THEN InfoReturn("No variables found for component '%s' in stack '%s'")
                       ELSE IF flags.tfVars
                       THEN Printed
                       ELSE IF flags.jsonOutput
                       THEN outputComponentVarsJSON(outcome = "variables")
                       ELSE Printed
       ELSE Printed /\ UNCHANGED ops
    /\ UNCHANGED <<normVars, pipeVars, filterVars, flags, stackName, finder, duplicates,
                   targetStack>>

ShowNext ==
    \/ ShowCheckFlags
    \/ ShowFindStacks
    \/ ShowCheckDuplicates
    \/ ShowApplyFilters
    \/ ShowSelectTarget
    \/ ShowExtractComponents
    \/ ShowPrint

SpecShow == ShowInit /\ [][ShowNext]_vars

(***************************************************************************)
(* Properties.                                                              *)
(***************************************************************************)
InLines == Split(text)
OutLines(o) == Split(o.text)
Outs == {outPkg, outInt}

\* C1 (as claimed): a text in which every mapping holds exactly one merge-key
\* line is returned unchanged by both normalizers, whatever the arrangement of
\* the mappings.
C1_SingleMergeKeysUnchanged ==
    OneMergeKeyPerMapping(InLines) =>
        \A o \in Outs : o.done => o = Returned(text)

Ran == { impl \in {"pkg", "internal"} : IF impl = "pkg" THEN outPkg.done ELSE outInt.done }
Out(impl) == IF impl = "pkg" THEN outPkg ELSE outInt
Norm(impl, t) == IF impl = "pkg" THEN PkgPreprocess(t) ELSE IntPreprocess(t)
NormLines(impl, ls) == Split(Norm(impl, Join(ls, <<NL>>)).text)

Count(ls, line) == Cardinality({ k \in 1..Len(ls) : ls[k] = line })

\* C2 (as claimed): every run of N >= 2 adjacent merge-key lines of equal
\* indentation comes out as exactly one line listing those N entries in order,
\* and the N-1 other lines of every run are gone from the output.
C2_GroupingCorrect ==
        \A impl \in Ran :
            LET out == OutLines(Out(impl))
                big == { r \in Runs(InLines) : r[2] > r[1] }
            IN  /\ \A r \in big :
                      Count(out, CombinedLine(InLines, r[1], r[2])) =
                          Cardinality({ q \in big :
                              CombinedLine(InLines, q[1], q[2]) =
                                  CombinedLine(InLines, r[1], r[2]) })
                /\ Len(MergeKeyLines(out)) <=
                      Len(MergeKeyLines(InLines))
                          - Cardinality({ k \in 1..Len(InLines) : Adjacent(InLines, k) })

RECURSIVE MergeKeyLinesAt(_, _)
MergeKeyLinesAt(ls, indent) ==
    IF ls = <<>> THEN <<>>
    ELSE (IF IsMergeKey(ls[1]) /\ Indent(ls[1]) = indent THEN <<ls[1]>> ELSE <<>>)
             \o MergeKeyLinesAt(Tail(ls), indent)

Without(ls, r) == SubSeq(ls, 1, r[1] - 1) \o SubSeq(ls, r[2] + 1, Len(ls))

\* an inner group: the merge keys directly under a key that opens a mapping
IsInnerRun(ls, r) ==
    /\ r[1] > 1
    /\ OpensMapping(ls[r[1] - 1])
    /\ Indent(ls[r[1] - 1]) < Indent(ls[r[1]])

\* C3 (as claimed): with an outer group and a deeper group of several merge
\* keys under a nested key, what is emitted at either group's indentation is what is emitted there
\* when the other group is taken out of the text.
C3_NestingIndependent ==
    \A r, q \in Runs(InLines) :
        ( /\ Runs(InLines) = {r, q}
          /\ Indent(InLines[r[1]]) < Indent(InLines[q[1]])
          /\ q[2] > q[1]
          /\ IsInnerRun(InLines, q) )
        => \A impl \in Ran :
              /\ MergeKeyLinesAt(OutLines(Out(impl)), Indent(InLines[r[1]]))
                    = MergeKeyLinesAt(NormLines(impl, Without(InLines, q)), Indent(InLines[r[1]]))
              /\ MergeKeyLinesAt(OutLines(Out(impl)), Indent(InLines[q[1]]))
                    = MergeKeyLinesAt(NormLines(impl, Without(InLines, r)), Indent(InLines[q[1]]))

\* C4 (as claimed): blank and comment lines come out unchanged, and the
\* merge-key lines come out as they do for the text without them.
C4_BlankAndCommentTransparent ==
        \A impl \in Ran :
            /\ BlankAndCommentLines(OutLines(Out(impl))) = BlankAndCommentLines(InLines)
            /\ MergeKeyLines(OutLines(Out(impl))) = MergeKeyLines(NormLines(impl, Strip(InLines)))

\* ls[i..j] holds only merge-key lines of one indentation, possibly with
\* blank or comment lines between them
Contiguous(ls, i, j) ==
    /\ 1 <= i /\ i < j /\ j <= Len(ls)
    /\ IsMergeKey(ls[i]) /\ IsMergeKey(ls[j])
    /\ \A k \in i..j :
          \/ IsBlank(ls[k]) \/ IsComment(ls[k])
          \/ IsMergeKey(ls[k]) /\ Indent(ls[k]) = Indent(ls[i])

TrimAll(ls) == [k \in 1..Len(ls) |-> TrimSpace(ls[k])]

\* C5 (as claimed): every list entry the internal/yaml-parser normalizer emits
\* lists the merge-key lines of one contiguous run of the input.
C5_GroupIsContiguousRun ==
    outInt.done =>
        \A k \in 1..Len(OutLines(outInt)) :
            HasPrefix(TrimSpace(OutLines(outInt)[k]), ListOpen) =>
                \E i, j \in 1..Len(InLines) :
                    /\ Contiguous(InLines, i, j)
                    /\ OutLines(outInt)[k] =
                           Sp(Indent(InLines[i])) \o ListOpen
                               \o Join(TrimAll(MergeKeyLines(SubSeq(InLines, i, j))), ListSep)
                               \o ListClose

\* C6 (as claimed): a text whose merge-key lines form one group comes out with
\* the group replaced by indentation + "<<: [" + trimmed lines joined by ", "
\* + "]" when it has several lines, and by its original line when it has one.
C6_ExactRewriteSyntax ==
    \A r \in Runs(InLines) :
        Runs(InLines) = {r} =>
            \A o \in Outs : o.done =>
                OutLines(o) = SubSeq(InLines, 1, r[1] - 1)
                                 \o <<ExpectedLine(InLines, r[1], r[2])>>
                                 \o SubSeq(InLines, r[2] + 1, Len(InLines))

\* C7: a text with no merge-key line is returned as it is by both normalizers.
C7_NoMergeKeyIdentity ==
    MergeKeyLines(InLines) = <<>> =>
        \A o \in Outs : o.done => o = Returned(text)

C7_Witness ==
    /\ outPkg.done /\ outInt.done
    /\ MergeKeyLines(InLines) = <<>>
    /\ Len(InLines) >= 3
    /\ \E k \in 1..Len(InLines) : IsBlank(InLines[k])
    /\ \E k \in 1..Len(InLines) : Indent(InLines[k]) > 0

\* C8: both normalizers return a text for every input: no call ends in a
\* run-time panic (slice of the path stack out of range, lines[i-1] with i = 0).
C8_NeverRejects ==
    \A o \in Outs : o.done => ~o.panic

\* a merge key on the first line, and an indentation that falls by more levels
\* than the path stack holds
C8_Witness ==
    /\ outPkg.done /\ outInt.done
    /\ Len(InLines) >= 3
    /\ IsMergeKey(InLines[1])
    /\ Indent(InLines[1]) = 0
    /\ \E k \in 2..(Len(InLines) - 1) :
          /\ Indent(InLines[k]) % 2 = 1
          /\ IsOrdinary(InLines[k + 1])
          /\ Indent(InLines[k + 1]) = 0

InChain(err, msg) == \E k \in 1..Len(err.chain) : err.chain[k] = msg

\* C9: a call with a catalog root that does not exist returns an error, with
\* no value, that is the directory-scan error and names that root.
C9_MissingCatalogRoot ==
    (pc = "done" /\ call.catalogDir \notin DOMAIN disk.tree) =>
        /\ ret.status = "error"
        /\ ret.value = Nil
        /\ InChain(ret.err, "error walking directory %s")
        /\ call.catalogDir \in ret.err.paths

C9_Witness ==
    /\ pc = "done"
    /\ call.catalogDir \notin DOMAIN disk.tree
    /\ call.fn = "MergeYAML"
    /\ disk.stack.exists
    /\ steps = <<"scan">>

\* C10 (as claimed): every error returned carries the stack file path or the
\* catalog root.
C10_EveryFailureCarriesPath ==
    (pc = "done" /\ ret.status = "error") =>
        (call.stackFile \in ret.err.paths \/ call.catalogDir \in ret.err.paths)

PipelineOrder == <<"scan", "read", "normalize", "decode", "marshal">>

\* the step whose failure an error reports, read off its messages
FailingStep(err) ==
    IF InChain(err, "failed to find subdirectories") THEN "scan"
    ELSE IF InChain(err, "failed to read YAML file %s") THEN "read"
    ELSE IF InChain(err, "failed to decode YAML") THEN "decode"
    ELSE IF InChain(err, "failed to marshal merged YAML") THEN "marshal"
    ELSE "none"

\* C11: a returned error comes with a nil value, the steps executed are the
\* pipeline's steps in order up to the one that failed, each once, and no step
\* can be taken after the return; a scan or read that fails ends the call there.
C11_FailureAborts ==
    /\ ret.status = "error" =>
          /\ ret.value = Nil
          /\ pc = "done"
          /\ steps = SubSeq(PipelineOrder, 1, Len(steps))
          /\ steps[Len(steps)] = FailingStep(ret.err)
          /\ ~ENABLED PipeNext
    /\ (pc = "done" /\ IsError(FindSubdirectories(disk, call.catalogDir).err)) =>
          ret.status = "error" /\ steps = <<"scan">>
    /\ (pc = "done" /\ ~IsError(FindSubdirectories(disk, call.catalogDir).err)
           /\ ~disk.stack.exists) =>
          ret.status = "error" /\ steps = <<"scan", "read">>

\* MergeYAML whose decoding failed: the serialization was not attempted
C11_Witness ==
    /\ call.fn = "MergeYAML"
    /\ ret.status = "error"
    /\ steps = <<"scan", "read", "normalize", "decode">>

IsPrefix(p, q) == Len(p) <= Len(q) /\ SubSeq(q, 1, Len(p)) = p

\* the directories nested beneath root, at any depth
DescendantDirs(d, root) ==
    { p \in DOMAIN d.tree : d.tree[p] = "dir" /\ p # root /\ IsPrefix(root, p) }

Range(s) == { s[k] : k \in 1..Len(s) }

\* C12: FindSubdirectories(root) on a root that does not exist returns an
\* error and no list; when it returns a list, the list holds root and every
\* directory beneath it, each once, and nothing else.
C12_FindSubdirectoriesContents ==
    steps # <<>> =>
        LET found == FindSubdirectories(disk, call.catalogDir)
            below == DescendantDirs(disk, call.catalogDir)
        IN  /\ call.catalogDir \notin DOMAIN disk.tree =>
                  IsError(found.err) /\ found.dirs = <<>>
            /\ ~IsError(found.err) =>
                  /\ Range(found.dirs) = {call.catalogDir} \cup below
                  /\ Len(found.dirs) = 1 + Cardinality(below)
                  /\ subdirs = <<call.catalogDir>> \o found.dirs

\* a catalog with a file, a directory two levels down and a sibling directory
C12_Witness ==
    /\ steps # <<>>
    /\ ~IsError(FindSubdirectories(disk, call.catalogDir).err)
    /\ CatalogDir \o <<"a.yaml">> \in DOMAIN disk.tree
    /\ CatalogDir \o <<"sub", "deep">> \in DOMAIN disk.tree
    /\ CatalogDir \o <<"zed">> \in DOMAIN disk.tree
    /\ Len(FindSubdirectories(disk, call.catalogDir).dirs) = 4

NameIndex(n) == CHOOSE k \in 1..Len(EntryNames) : EntryNames[k] = n

\* p comes before q in a depth-first traversal that visits the entries of a
\* directory in lexical order
PathBefore(p, q) ==
    \/ Len(p) < Len(q) /\ IsPrefix(p, q)
    \/ \E k \in 1..Len(p) :
          /\ k <= Len(q)
          /\ SubSeq(p, 1, k - 1) = SubSeq(q, 1, k - 1)
          /\ p[k] # q[k]
          /\ NameIndex(p[k]) < NameIndex(q[k])

RECURSIVE InOrder(_)
InOrder(S) ==
    IF S = {} THEN <<>>
    ELSE LET m == CHOOSE p \in S : \A q \in S \ {p} : PathBefore(p, q)
         IN  <<m>> \o InOrder(S \ {m})

\* C13 (as claimed): the list ParseStack passes to the decoder is the catalog
\* root followed by its descendant directories in lexical depth-first order.
C13_ReferenceDirectoryOrder ==
    (pc \notin {"scan", "idle"} /\ subdirs # <<>>) =>
        subdirs = <<call.catalogDir>> \o InOrder(DescendantDirs(disk, call.catalogDir))

(***************************************************************************)
(* The stack document as it is written, read off the file before any       *)
(* normalization: its mappings, the anchors each merges, the anchors it     *)
(* declares and the aliases it uses.                                        *)
(***************************************************************************)
RawDoc == ParseDocument(disk.stack.data)

RECURSIVE MappingsOf(_, _)
MappingsOf(entries, path) ==
    {[path |-> path, entries |-> entries]}
        \cup UNION { IF entries[k].node.kind = "map"
                     THEN MappingsOf(entries[k].node.entries, Append(path, entries[k].key))
                     ELSE {} : k \in 1..Len(entries) }

RECURSIVE Declared(_, _)
Declared(entries, path) ==
    UNION { (IF entries[k].anchor # <<>>
             THEN {[name |-> entries[k].anchor, path |-> Append(path, entries[k].key)]}
             ELSE {})
            \cup (IF entries[k].node.kind = "map"
                  THEN Declared(entries[k].node.entries, Append(path, entries[k].key))
                  ELSE {}) : k \in 1..Len(entries) }

NamesOf(node) ==
    IF node.kind = "alias" THEN {node.text}
    ELSE IF node.kind = "merges" THEN Range(node.names)
    ELSE {}

RECURSIVE Aliases(_)
Aliases(entries) ==
    UNION { NamesOf(entries[k].node)
            \cup (IF entries[k].node.kind = "map" THEN Aliases(entries[k].node.entries) ELSE {})
            : k \in 1..Len(entries) }

\* the anchors a mapping merges, and the entries it writes itself
MergedNames(entries) ==
    UNION { IF entries[k].key = MergeKeyName THEN NamesOf(entries[k].node) ELSE {}
            : k \in 1..Len(entries) }

Explicit(entries) == { k \in 1..Len(entries) : entries[k].key # MergeKeyName }
Written(entries) == { entries[k].key : k \in Explicit(entries) }

Missing == [kind |-> "missing", text |-> <<>>, map |-> <<>>]

RECURSIVE LookupPath(_, _)
LookupPath(v, path) ==
    IF path = <<>> THEN v
    ELSE IF v.kind = "map" /\ path[1] \in DOMAIN v.map
    THEN LookupPath(v.map[path[1]], Tail(path))
    ELSE Missing

\* the anchors of every document at or below the catalog root
CatalogAnchors(d) ==
    AnchorsOfFiles(InOrder({ p \in DOMAIN d.tree : d.tree[p] = "file" }), EmptyMap)

StackAnchors == { a.name : a \in Declared(RawDoc.entries, <<>>) }

\* the value of an anchor: the mapping declared in the stack file (as the tree
\* holds it), or the one a catalog document declares
AnchorValue(name, tree) ==
    IF name \in StackAnchors
    THEN LookupPath(tree, (CHOOSE a \in Declared(RawDoc.entries, <<>>) : a.name = name).path)
    ELSE IF name \in DOMAIN CatalogAnchors(disk) THEN CatalogAnchors(disk)[name]
    ELSE Missing

AnchorKeys(names, tree) == UNION { DOMAIN AnchorValue(n, tree).map : n \in names }

VpcPath == <<Chars("spec"), Chars("components"), Chars("terraform"), Chars("vpc")>>

\* C14 (as claimed): in the tree ParseStack returns, a mapping that merges
\* anchors and writes a key they define holds the written value for every key
\* it writes (a written nested mapping holds only the keys written in it) and
\* an anchor's value for every key only the anchors define; for the fixture,
\* vpc is {type: terraform, vars: {environment: dev}}.
C14_OverrideNotDeepMerge ==
    (pc = "done" /\ call.fn = "ParseStack" /\ ret.status = "ok") =>
        /\ \A mp \in MappingsOf(RawDoc.entries, <<>>) :
              LET names == MergedNames(mp.entries)
                  got == LookupPath(ret.value.of, mp.path)
                  fromAnchors == AnchorKeys(names, ret.value.of)
              IN  (names # {} /\ Written(mp.entries) \cap fromAnchors # {}) =>
                      /\ got.kind = "map"
                      /\ \A k \in Explicit(mp.entries) :
                            LET e == mp.entries[k]
                            IN  /\ e.key \in DOMAIN got.map
                                /\ e.node.kind = "scalar" =>
                                       got.map[e.key] = VScalar(e.node.text)
                                /\ (e.node.kind = "map" /\ MergedNames(e.node.entries) = {}) =>
                                       /\ got.map[e.key].kind = "map"
                                       /\ DOMAIN got.map[e.key].map = Written(e.node.entries)
                      /\ \A kk \in fromAnchors \ Written(mp.entries) :
                            /\ kk \in DOMAIN got.map
                            /\ \E n \in names :
                                  /\ kk \in DOMAIN AnchorValue(n, ret.value.of).map
                                  /\ got.map[kk] = AnchorValue(n, ret.value.of).map[kk]
        /\ disk.stack.data = Fixture =>
              LookupPath(ret.value.of, VpcPath) =
                  VMap(Bind(Bind(EmptyMap, Chars("type"), VScalar(Chars("terraform"))),
                            Chars("vars"),
                            VMap(Bind(EmptyMap, Chars("environment"), VScalar(Chars("dev"))))))

C16_UnknownAnchorIsAnError ==
    ( /\ pc = "done"
      /\ disk.stack.exists
      /\ RawDoc.ok
      /\ ~(Aliases(RawDoc.entries) \subseteq (StackAnchors \cup DOMAIN CatalogAnchors(disk))) )
    => ret.status = "error"

\* C17 (as claimed): when every alias of the stack document is declared, a
\* mapping that merges an anchor declared only in a catalog document, at or
\* below the catalog root, holds that anchor's value for every key that
\* neither the mapping nor another anchor it merges defines.
C17_CrossFileAnchors ==
    ( /\ pc = "done"
      /\ call.fn = "ParseStack"
      /\ ~IsError(FindSubdirectories(disk, call.catalogDir).err)
      /\ disk.stack.exists
      /\ RawDoc.ok
      /\ Aliases(RawDoc.entries) \subseteq (StackAnchors \cup DOMAIN CatalogAnchors(disk)) )
    => \A mp \in MappingsOf(RawDoc.entries, <<>>) :
          \A n \in MergedNames(mp.entries) \ StackAnchors :
              /\ ret.status = "ok"
              /\ LookupPath(ret.value.of, mp.path).kind = "map"
              /\ \A kk \in DOMAIN CatalogAnchors(disk)[n].map :
                    (kk \notin Written(mp.entries)
                         \cup AnchorKeys(MergedNames(mp.entries) \ {n}, ret.value.of))
                    => /\ kk \in DOMAIN LookupPath(ret.value.of, mp.path).map
                       /\ LookupPath(ret.value.of, mp.path).map[kk] = CatalogAnchors(disk)[n].map[kk]

\* a call of FilterStacks on one stack and one filter keeps the stack
Passes(stack, filter) == FilterStacks(<<stack>>, <<filter>>) = <<stack>>
PassesByLabels(stack, filter) == FilterStacksByLabels(<<stack>>, <<filter>>) = <<stack>>

\* C18: both versions of FilterStacks return the stacks of the input, in the
\* order of the input, that every filter of the list keeps when it is the
\* only filter; with no filter they return the input.
C18_FilterStacksAndLogic ==
    /\ filteredStacks.done =>
          LET All(st) == \A k \in 1..Len(filters) : Passes(st, filters[k])
          IN  /\ filteredStacks.stacks = SelectSeq(stacks, All)
              /\ filters = <<>> => filteredStacks.stacks = stacks
    /\ labelFiltered.done =>
          LET All(st) == \A k \in 1..Len(filters) : PassesByLabels(st, filters[k])
          IN  /\ labelFiltered.stacks = SelectSeq(stacks, All)
              /\ filters = <<>> => labelFiltered.stacks = stacks

\* two filters that each keep several stacks and together keep fewer, but
\* not none
C18_Witness ==
    /\ filteredStacks.done /\ labelFiltered.done
    /\ Len(filters) = 2
    /\ filteredStacks.stacks # <<>>
    /\ Len(filteredStacks.stacks) < Len(FilterStacks(stacks, <<filters[1]>>))
    /\ Len(filteredStacks.stacks) < Len(FilterStacks(stacks, <<filters[2]>>))
    /\ labelFiltered.stacks # <<>>
    /\ Len(labelFiltered.stacks) < Len(FilterStacksByLabels(stacks, <<filters[1]>>))
    /\ Len(labelFiltered.stacks) < Len(FilterStacksByLabels(stacks, <<filters[2]>>))

\* a filter written key!=value or key=value, read as the doc comment of
\* FilterStacks describes it
IsNotEquals(filter) == Contains(filter, NotEq)
LabelKey(filter) ==
    TrimSpaceBytes(SplitN2(filter, IF IsNotEquals(filter) THEN NotEq ELSE Eq)[1])
LabelValue(filter) ==
    TrimSpaceBytes(SplitN2(filter, IF IsNotEquals(filter) THEN NotEq ELSE Eq)[2])

\* the formats the doc comment gives to the stack name: name=, name!=, name~=,
\* name!~= and /pattern/
IsNameFormat(filter) ==
    \/ HasPrefix(filter, NameEq) \/ HasPrefix(filter, NameNotEq)
    \/ HasPrefix(filter, NameRe) \/ HasPrefix(filter, NameNotRe)
    \/ isRegexPatternInSlashes(filter)

IsLabelFilter(filter) ==
    /\ Contains(filter, Eq)
    /\ ~IsNameFormat(filter)
    /\ LabelKey(filter) # NameWord

\* C19 (as claimed): a filter key=value or key!=value whose key is not name
\* keeps a stack iff the stack's label key equals value (for !=: iff the stack
\* has no label key or its value differs), whatever the stack's name.
C19_LabelFilters ==
    filteredStacks.done =>
        \A k \in 1..Len(filters) : \A j \in 1..Len(stacks) :
            LET f == filters[k]
                st == stacks[j]
                equal == HasLabel(st, LabelKey(f)) /\ st.Labels[LabelKey(f)] = LabelValue(f)
            IN  IsLabelFilter(f) =>
                    (Passes(st, f) <=> (IF IsNotEquals(f) THEN ~equal ELSE equal))

\* whole-string matching of the characters s against the characters p, "*"
\* standing for any run of characters and "?" for any one character
RECURSIVE WildMatch(_, _)
WildMatch(s, p) ==
    IF p = <<>> THEN s = <<>>
    ELSE IF p[1] = Star THEN WildMatch(s, Tail(p)) \/ (s # <<>> /\ WildMatch(Tail(s), p))
    ELSE /\ s # <<>>
         /\ (p[1] = Quest \/ p[1] = s[1])
         /\ WildMatch(Tail(s), Tail(p))

\* C20 (as claimed): for UTF-8 strings, MatchWildcard(s, pattern) is true iff
\* the whole of s matches pattern, "*" matching any run of characters, "?" any
\* one character and every other character of the pattern only itself.
C20_MatchWildcardWholeString ==
    (matched.done /\ ValidString(matched.s) /\ ValidString(matched.pattern)) =>
        (matched.result <=> WildMatch(Runes(matched.s), Runes(matched.pattern)))

\* the elements of a list entry "<<: [e1, e2, ...]", or the trimmed line itself
ListItems(line) ==
    LET t == TrimSpace(line)
        body == SubSeq(t, Len(ListOpen) + 1, Len(t) - 1)
        seps == { i \in 1..(Len(body) - 1) : body[i] = "," /\ body[i + 1] = " " }
        n == Cardinality(seps) + 1
        Brk(k) == IF k = 0 THEN -1
                  ELSE IF k = n THEN Len(body) + 1
                  ELSE CHOOSE i \in seps : Cardinality({ j \in seps : j < i }) = k - 1
    IN  IF HasPrefix(t, ListOpen \o MergeMarker)
        THEN [k \in 1..n |-> SubSeq(body, Brk(k - 1) + 2, Brk(k) - 1)]
        ELSE <<t>>

\* the merge references the merge-key lines of ls carry, in line order
RECURSIVE References(_)
References(ls) ==
    IF ls = <<>> THEN <<>>
    ELSE (IF IsMergeKey(ls[1]) THEN ListItems(ls[1]) ELSE <<>>) \o References(Tail(ls))

Occurrences(seq, e) == Cardinality({ k \in 1..Len(seq) : seq[k] = e })

\* C25 (as claimed): the pkg/yamlparser normalizer loses no merge reference:
\* every reference of an input merge-key line is carried by the merge-key lines
\* of the output exactly as often as by those of the input, also when a
\* merge-key line is directly followed by one at another indentation.
C25_NoReferenceLost ==
    outPkg.done =>
        \A k \in 1..Len(InLines) :
            IsMergeKey(InLines[k]) =>
                Occurrences(References(OutLines(outPkg)), TrimSpace(InLines[k]))
                    = Occurrences(References(InLines), TrimSpace(InLines[k]))

\* C26: in both normalizers the lines of the output that are no merge-key lines
\* are those of the input, in order and unchanged, and the output has no more
\* lines than the input.
C26_OrdinaryLinesKept ==
    \A o \in Outs : (o.done /\ ~o.panic) =>
        LET Kept(l) == OtherLines(l[2]) = OtherLines(l[1]) /\ Len(l[2]) <= Len(l[1])
        IN  Once(<<InLines, OutLines(o)>>, Kept)

\* merge keys were combined by both normalizers, around lines that are none
C26_Witness ==
    /\ \A o \in Outs : o.done /\ ~o.panic /\ Len(OutLines(o)) < Len(InLines)
    /\ Len(OtherLines(InLines)) >= 2
    /\ \E k \in 1..Len(InLines) : IsOrdinary(InLines[k])

\* C29: the pkg/yamlparser normalizer is idempotent: normalizing its output
\* again returns that output, in which no two merge-key lines are adjacent and
\* every merge-key line is its indentation followed by its trimmed content.
C29_PkgIdempotent ==
    (outPkg.done /\ ~outPkg.panic) =>
        LET Normal(out) ==
                /\ \A k \in 1..(Len(out) - 1) : ~(IsMergeKey(out[k]) /\ IsMergeKey(out[k + 1]))
                /\ \A k \in 1..Len(out) :
                      IsMergeKey(out[k]) => out[k] = Sp(Indent(out[k])) \o TrimSpace(out[k])
        IN  /\ PkgPreprocess(outPkg.text) = outPkg
            /\ Once(OutLines(outPkg), Normal)

\* the first call rewrote the text: a group was combined, and a single merge
\* key lost the white space after it
C29_Witness ==
    /\ outPkg.done /\ ~outPkg.panic
    /\ outPkg.text # text
    /\ \E k \in 1..Len(OutLines(outPkg)) : HasPrefix(TrimSpace(OutLines(outPkg)[k]), ListOpen)
    /\ \E k \in 1..Len(InLines) :
          IsMergeKey(InLines[k]) /\ InLines[k] # Sp(Indent(InLines[k])) \o TrimSpace(InLines[k])

\* C30 (as claimed): the normalizers of pkg/yamlparser and internal/yaml-parser
\* return the same text for the same input.
C30_NormalizersAgree ==
    (outPkg.done /\ outInt.done) => outPkg = outInt

\* the path stack of the first pass before its line i + 1 and after every
\* later line: element k + 1 is the stack after the first k lines
RECURSIVE FirstPaths(_, _, _)
FirstPaths(st, lines, i) ==
    IF i >= Len(lines) THEN <<st.currentPath>>
    ELSE <<st.currentPath>> \o FirstPaths(IntFirstStep(st, lines[i + 1]), lines, i + 1)

\* the same for the second pass
RECURSIVE SecondPaths(_, _, _, _)
SecondPaths(st, lines, i, pathToMergeKeys) ==
    IF i >= Len(lines) THEN <<st.currentPath>>
    ELSE <<st.currentPath>>
             \o SecondPaths(IntSecondStep(st, lines[i + 1], pathToMergeKeys),
                            lines, i + 1, pathToMergeKeys)

FirstPathAt(ls, k) == FirstPaths(IntFirstInit, ls, 0)[k + 1]
SecondPathAt(ls, k) ==
    SecondPaths(IntSecondInit, ls, 0, IntFirstLoop(IntFirstInit, ls, 0).pathToMergeKeys)[k + 1]

\* the indentation of the last non-blank line before line k, 0 if there is none
IndentBefore(ls, k) ==
    LET before == { j \in 1..(k - 1) : ~IsBlank(ls[j]) }
    IN  IF before = {} THEN 0
        ELSE Indent(ls[CHOOSE j \in before : \A i \in before : i <= j])

\* the step of the path stack from old to new at a line indented by indent
\* after a line indented by before
PathStepAsClaimed(old, new, before, indent, mergeKey) ==
    IF indent < before
    THEN IF Len(old) >= (before - indent) \div 2
         THEN new = SubSeq(old, 1, Len(old) - (before - indent) \div 2)
         ELSE new = <<>>
    ELSE IF indent > before /\ ~mergeKey
    THEN Len(new) = Len(old) + 1 /\ SubSeq(new, 1, Len(old)) = old
    ELSE new = old

\* C23: in the internal/yaml-parser normalizer a non-blank line indented d
\* columns less than the non-blank line before it pops d \div 2 segments of the
\* path stack (all of them when it holds fewer), a line that is no merge key
\* and is indented more pushes exactly one segment, a merge-key line pushes
\* none, and both passes give every merge-key line the same (indent, path) key.
C23_PathTracking ==
    (outInt.done /\ ~outInt.panic) =>
        LET \* t[1]: the lines, t[2] and t[3]: the stacks of the first and second pass
            Holds(t) ==
                \A k \in 1..Len(t[1]) :
                    ~IsBlank(t[1][k]) =>
                        /\ PathStepAsClaimed(t[2][k], t[2][k + 1], IndentBefore(t[1], k),
                                             Indent(t[1][k]), IsMergeKey(t[1][k]))
                        /\ IsMergeKey(t[1][k]) =>
                              /\ Len(t[2][k + 1]) <= Len(t[2][k])
                              /\ PathKey(Indent(t[1][k]), t[3][k + 1])
                                    = PathKey(Indent(t[1][k]), t[2][k + 1])
            Traces(ls) ==
                <<ls, FirstPaths(IntFirstInit, ls, 0),
                  SecondPaths(IntSecondInit, ls, 0,
                              IntFirstLoop(IntFirstInit, ls, 0).pathToMergeKeys)>>
        IN  Once(Once(InLines, Traces), Holds)

\* a text that pushes a segment, holds a merge-key line indented more than the
\* line before it, and pops more segments than the stack holds
C23_Witness ==
    /\ outInt.done /\ ~outInt.panic
    /\ \E k \in 1..Len(InLines) :
          /\ IsMergeKey(InLines[k])
          /\ Indent(InLines[k]) > IndentBefore(InLines, k)
          /\ FirstPathAt(InLines, k) # <<>>
    /\ \E k \in 1..Len(InLines) :
          /\ ~IsBlank(InLines[k])
          /\ Indent(InLines[k]) < IndentBefore(InLines, k)
          /\ FirstPathAt(InLines, k - 1) # <<>>
          /\ Len(FirstPathAt(InLines, k - 1)) < (IndentBefore(InLines, k) - Indent(InLines[k])) \div 2
          /\ FirstPathAt(InLines, k) = <<>>

\* C27 (as claimed): the reference directory list ParseStack builds holds no
\* path twice: the catalog root once and every directory beneath it once.
C27_NoDuplicateDirectory ==
    \A i, j \in 1..Len(subdirs) : subdirs[i] = subdirs[j] => i = j

\* C28: ParseStack scans the catalog before it reads the stack file, reads
\* before it normalizes and normalizes before it decodes; the normalizer is
\* given the bytes read and the decoder the normalized text; a failed scan
\* leaves the file unread, and with the catalog root and the stack file both
\* missing the error returned is the directory-scan error.
C28_StepOrdering ==
    /\ steps = SubSeq(PipelineOrder, 1, Len(steps))
    /\ (steps # <<>> /\ IsError(FindSubdirectories(disk, call.catalogDir).err)) =>
          /\ "read" \notin Range(steps)
          /\ yamlData = <<>>
          /\ FailingStep(ret.err) = "scan"
    /\ "normalize" \in Range(steps) =>
          /\ yamlData = disk.stack.data
          /\ pc # "done" => processed = Preprocess(call.pkg, yamlData).text
    /\ (pc = "done" /\ ret.status = "ok" /\ call.fn = "ParseStack") =>
          ret.value = Tree(Decode(processed, ReferenceAnchors(disk, subdirs, EmptyMap)).value)
    /\ (pc = "done" /\ call.catalogDir \notin DOMAIN disk.tree /\ ~disk.stack.exists) =>
          /\ ret.status = "error"
          /\ InChain(ret.err, "error walking directory %s")
          /\ ~InChain(ret.err, "failed to read YAML file %s")

\* a call that returned with neither the catalog root nor the stack file there
C28_Witness ==
    /\ pc = "done"
    /\ call.fn = "ParseStack"
    /\ call.catalogDir \notin DOMAIN disk.tree
    /\ ~disk.stack.exists
    /\ ret.status = "error"

\* the file paths of the stacks of ss called name, in the order of ss
RECURSIVE PathsNamed(_, _)
PathsNamed(ss, name) ==
    IF ss = <<>> THEN <<>>
    ELSE (IF ss[1].Name = name THEN <<ss[1].FilePath>> ELSE <<>>)
             \o PathsNamed(Tail(ss), name)

DuplicatedNames(ss) ==
    { ss[i].Name : i \in { k \in 1..Len(ss) : \E j \in 1..Len(ss) : j # k /\ ss[j].Name = ss[k].Name } }

OpsDone == { ops[k].op : k \in 1..Len(ops) }

\* C21: FindDuplicateStacks returns a map whose keys are the names carried by
\* more than one stack of the input, each with the file paths of all the
\* stacks of that name in input order; a name that occurs once is no key, and
\* the map is empty exactly when all names are different.
C21_FindDuplicateStacks ==
    "FindDuplicateStacks" \in OpsDone =>
        /\ DOMAIN duplicates = DuplicatedNames(finder.stacks)
        /\ \A name \in DOMAIN duplicates :
              duplicates[name] = PathsNamed(finder.stacks, name)
        /\ \A k \in 1..Len(finder.stacks) :
              Cardinality(Named(finder.stacks, finder.stacks[k].Name)) = 1 =>
                  finder.stacks[k].Name \notin DOMAIN duplicates
        /\ (DOMAIN duplicates = {}) <=>
              (\A i, j \in 1..Len(finder.stacks) :
                   finder.stacks[i].Name = finder.stacks[j].Name => i = j)

\* three stacks of one name around a stack whose name occurs once
C21_Witness ==
    /\ "FindDuplicateStacks" \in OpsDone
    /\ Len(finder.stacks) = 4
    /\ \E name \in DOMAIN duplicates :
          /\ Len(duplicates[name]) = 3
          /\ finder.stacks[2].Name # name
    /\ Cardinality(DOMAIN duplicates) = 1

\* C24: when two of the stacks FindStacks returned share a name, show stack
\* logs an entry for every duplicated name and exits with status 1, and in
\* that run no filter is applied to the stacks, no stack is selected and no
\* stack file is merged or parsed.
C24_DuplicateCheckFirst ==
    ("FindStacks" \in OpsDone /\ ~finder.err /\ DuplicatedNames(finder.stacks) # {}) =>
        /\ OpsDone \subseteq {"FindStacks", "FindDuplicateStacks"}
        /\ stacks = finder.stacks
        /\ targetStack = NoStack
        /\ showPc \in {"duplicates", "exited"}
        /\ showPc = "exited" =>
              /\ exitCode = Exited(1)
              /\ Len(log) = Cardinality(DuplicatedNames(finder.stacks))
              /\ \A name \in DuplicatedNames(finder.stacks) :
                    \E k \in 1..Len(log) :
                        /\ log[k].level = "error"
                        /\ log[k].msg = "duplicate stack detected"
                        /\ log[k].stack = name
                        /\ log[k].count = Cardinality(Named(finder.stacks, name))

\* two names are duplicated, a filter and a stack name were given
C24_Witness ==
    /\ showPc = "exited"
    /\ Cardinality(DOMAIN duplicates) = 2
    /\ Len(log) = 2
    /\ filters # <<>>
    /\ stackName = ProdName

IsNameRegexFilter(filter) ==
    \/ isRegexPatternInSlashes(filter)
    \/ HasPrefix(filter, NameRe)
    \/ HasPrefix(filter, NameNotRe)

\* the regular expression a name filter is written with
NamePattern(filter) ==
    IF isRegexPatternInSlashes(filter) THEN SubSeq(filter, 2, Len(filter) - 1)
    ELSE IF HasPrefix(filter, NameRe) THEN TrimPrefix(filter, NameRe)
    ELSE TrimPrefix(filter, NameNotRe)

InvalidRegexFilter(filter) ==
    IsNameRegexFilter(filter) /\ Compile(NamePattern(filter)).err # ""

RECURSIVE ValidFilters(_)
ValidFilters(fs) ==
    IF fs = <<>> THEN <<>>
    ELSE (IF InvalidRegexFilter(fs[1]) THEN <<>> ELSE <<fs[1]>>) \o ValidFilters(Tail(fs))

\* C22 (as claimed): a name filter /re/, name~=re or name!~=re whose regular
\* expression does not compile excludes no stack: FilterStacks returns what it
\* returns for the other filters of the list.
C22_InvalidRegexSkipped ==
    filteredStacks.done =>
        filteredStacks.stacks = FilterStacks(stacks, ValidFilters(filters))

Spec == SpecNorm
====
